---- MODULE Spec2Model ----
(***************************************************************************)
(* A model of the Verilog AST construction and emission library (VAST):    *)
(* the VerilogFile arena, expression nodes and their precedence-driven     *)
(* emission, statement blocks, conditionals and the AlwaysFlop pattern;    *)
(* and of the IR Block (ports and registers), IntervalSet, the NoC         *)
(* Experiment sweeps and the trace format-string parser.                   *)
(*                                                                         *)
(* Text is a TLA+ string; a failed XLS_CHECK is the outcome kFatal, which  *)
(* every formatting helper propagates (the process aborts, no text).       *)
(***************************************************************************)
EXTENDS Integers, Sequences, FiniteSets, TLC

VARIABLES
    file,     \* VerilogFile arena: sequence of nodes, a pointer is an index
    out,      \* the most recent call: [op, this, args, ret]
    fatal,    \* TRUE once an XLS_CHECK has failed (the process has aborted)
    history,  \* the builder calls that returned, in call order
    block,         \* the IR Block: ports, registers and their nodes
    interval_set,  \* the IntervalSet: [is_normalized_, bit_count_, intervals_]
    experiment     \* the NoC Experiment: [config_, sweeps_]

vars == <<file, out, fatal, history, block, interval_set, experiment>>

\* The objects other than the VerilogFile, and the VerilogFile itself.
ir_vars == <<block, interval_set, experiment>>

vast_vars == <<file, history>>

\* ------------------------------------------------------------------------
\* Bounds of the model
\* ------------------------------------------------------------------------

\* Operator nodes made on top of the references in SpecExpr and SpecTernary.
MaxExprNodes == 2

\* Slice / Index / PartSelect nodes made in SpecSelect and SpecPartSelect.
MaxSelectNodes == 2

\* AddRegister calls on the AlwaysFlop in SpecFlop.
MaxRegisters == 3

\* AddAlternate calls on the Conditional in SpecCond.
MaxAlternates == 4

\* Every bit pattern of a literal is built up to this bit count in SpecLiteral.
MaxLiteralBits == 4

\* The most bounds of an unpacked array in SpecDecl.
MaxBounds == 2

\* The most packed dimensions of a data type in SpecBitCount.
MaxPackedDims == 2

\* Builder calls on the Module in SpecModule and SpecPort.
MaxModuleCalls == 3

\* Ports of the Module in SpecModule and SpecPort.
MaxPorts == 2

\* The longest name given to SanitizeIdentifier.
MaxNameLen == 3

\* The largest width of a port descriptor given to FromProto.
MaxProtoWidth == 4

\* The widest interval given to an IntervalSet, and the most intervals added
\* to one.
MaxIntervalBits == 2

MaxIntervals == 2

\* The most sweep steps added to an experiment.
MaxSteps == 2

\* The most pieces a format string is put together from.
MaxPieces == 3

\* The most nodes added to a Block, and the longest name list given to
\* ReorderPorts.
MaxBlockNodes == 2

MaxPortNames == 2

\* The most registers added to a Block.
MaxBlockRegisters == 2

\* Nodes of the arena up to which a function is emitted in SpecFunction.
MaxFileNodes == 14

\* ------------------------------------------------------------------------
\* Program constants
\* ------------------------------------------------------------------------

nullptr == 0

kMaxPrecedence == 13

kBinarySubPrecedence == 9

kBinaryMulPrecedence == 10

kUnaryPrecedence == 12

kTernaryPrecedence == 0

\* The outcome of an emission that hit a failed XLS_CHECK.
kFatal == "<fatal>"

\* The return value of a call that aborted, or that returns void.
NoReturn == "<none>"

\* The value of a variable whose object does not exist.
NoObject == "<no object>"

\* ------------------------------------------------------------------------
\* String helpers (absl::StrCat / StrFormat / StrJoin)
\* ------------------------------------------------------------------------

RECURSIVE Concat(_)
Concat(parts) ==
    IF parts = <<>> THEN "" ELSE Head(parts) \o Concat(Tail(parts))

\* The concatenation of a sequence of sequences.
RECURSIVE Concat2(_)
Concat2(seqs) ==
    IF seqs = <<>> THEN <<>> ELSE Head(seqs) \o Concat2(Tail(seqs))

\* Concatenation of the pieces of a format; aborts if computing a piece did.
StrCat(parts) ==
    IF \E i \in DOMAIN parts : parts[i] = kFatal THEN kFatal ELSE Concat(parts)

RECURSIVE JoinSep(_, _)
JoinSep(parts, sep) ==
    IF parts = <<>> THEN ""
    ELSE IF Len(parts) = 1 THEN parts[1]
    ELSE parts[1] \o sep \o JoinSep(Tail(parts), sep)

StrJoin(parts, sep) ==
    IF \E i \in DOMAIN parts : parts[i] = kFatal THEN kFatal
    ELSE JoinSep(parts, sep)

\* TRUE iff sub occurs in s.
Contains(s, sub) ==
    \E i \in 1..(Len(s) - Len(sub) + 1) : SubSeq(s, i, i + Len(sub) - 1) = sub

\* Number of occurrences of the one-character string c in s.
CountChar(s, c) == Cardinality({i \in 1..Len(s) : SubSeq(s, i, i) = c})

ParenWrap(s) == StrCat(<<"(", s, ")">>)

\* The character at position i of a string.
CharAt(s, i) == SubSeq(s, i, i)

IsCharOf(c, s) == \E i \in 1..Len(s) : CharAt(s, i) = c

ascii_isdigit(c) == IsCharOf(c, "0123456789")

ascii_isalpha(c) ==
    \/ IsCharOf(c, "abcdefghijklmnopqrstuvwxyz")
    \/ IsCharOf(c, "ABCDEFGHIJKLMNOPQRSTUVWXYZ")

ascii_isalnum(c) == ascii_isalpha(c) \/ ascii_isdigit(c)

\* The loop of SanitizeIdentifier: every non-alphanumeric character of
\* sanitized becomes an underscore.
RECURSIVE ReplaceNonAlnum(_)
ReplaceNonAlnum(sanitized) ==
    IF sanitized = "" THEN ""
    ELSE (IF ascii_isalnum(CharAt(sanitized, 1)) THEN CharAt(sanitized, 1) ELSE "_")
         \o ReplaceNonAlnum(SubSeq(sanitized, 2, Len(sanitized)))

\* SanitizeIdentifier without the underscore before a leading digit.
SanitizeIdentifierNoPrefix(name) ==
    IF name = "" THEN "_" ELSE ReplaceNonAlnum(name)

SanitizeIdentifier(name) ==
    IF name = "" THEN "_"
    ELSE ReplaceNonAlnum(IF ascii_isdigit(CharAt(name, 1)) THEN "_" \o name
                         ELSE name)

Digits == <<"0", "1", "2", "3", "4", "5", "6", "7", "8", "9">>

RECURSIVE DecimalString(_)
DecimalString(v) ==
    IF v < 10 THEN Digits[v + 1]
    ELSE DecimalString(v \div 10) \o Digits[(v % 10) + 1]

\* ------------------------------------------------------------------------
\* Node predicates
\* ------------------------------------------------------------------------

Nodes(f) == DOMAIN f

IsKind(f, n, k) == n \in Nodes(f) /\ f[n].kind = k

ExpressionKinds ==
    {"Literal", "LogicRef", "Unary", "BinaryInfix", "Ternary",
     "Slice", "PartSelect", "Index"}

IsExpression(f, n) == n \in Nodes(f) /\ f[n].kind \in ExpressionKinds

Expressions(f) == {n \in Nodes(f) : IsExpression(f, n)}

IsLiteral(f, n) == IsKind(f, n, "Literal")

IsUnary(f, n) == IsKind(f, n, "Unary")

IsLogicRef(f, n) == IsKind(f, n, "LogicRef")

IsIndexableExpression(f, n) == IsKind(f, n, "LogicRef") \/ IsKind(f, n, "Index")

precedence(f, n) == f[n].precedence

\* DataType: scalar iff no width and no packed dimensions.
DataTypeIsScalar(t) == t.width = nullptr /\ t.packed_dims = <<>>

\* IndexableExpression::IsScalar: a LogicRef is as scalar as its definition,
\* any other indexable expression is not scalar.
IsScalar(f, n) ==
    IF IsLogicRef(f, n) THEN DataTypeIsScalar(f[f[n].def].data_type) ELSE FALSE

\* Bits::ToInt64 reads the pattern as two's complement.  A value of the model
\* is below 2^31, so a pattern of 32 bits or more has its sign bit clear.
BitsToInt64(bits) ==
    IF bits.bit_count \in 1..31 /\ bits.value >= 2 ^ (bits.bit_count - 1)
    THEN (bits.value - 2 ^ (bits.bit_count - 1)) - 2 ^ (bits.bit_count - 1)
    ELSE bits.value

\* Literal::IsLiteralWithValue; Expression's default returns false.
\* Bits::FitsInInt64: at most 64 bits, or every bit from bit 63 up equal to
\* the top bit (a value of the model, below 2^31, has all of them clear).
FitsInInt64(bits) == bits.bit_count <= 64 \/ bits.value \div (2 ^ 30) < 2

IsLiteralWithValue(f, n, target) ==
    /\ IsLiteral(f, n)
    /\ FitsInInt64(f[n].bits)
    /\ BitsToInt64(f[n].bits) = target

\* ------------------------------------------------------------------------
\* Expression emission
\* ------------------------------------------------------------------------

RECURSIVE Emit(_, _)

HexDigits ==
    <<"0", "1", "2", "3", "4", "5", "6", "7", "8", "9",
      "a", "b", "c", "d", "e", "f">>

\* Bits::ToRawDigits writes a separator every four digits.
kSeparatorPeriod == 4

\* The `count` digits of v from digit number digit_no up, most significant
\* first; a digit whose number is a non-zero multiple of kSeparatorPeriod is
\* followed by "_".
RECURSIVE RawDigits(_, _, _, _)
RawDigits(v, radix, count, digit_no) ==
    IF count = 0 THEN ""
    ELSE RawDigits(v \div radix, radix, count - 1, digit_no + 1)
         \o HexDigits[(v % radix) + 1]
         \o (IF digit_no # 0 /\ digit_no % kSeparatorPeriod = 0
             THEN "_" ELSE "")

\* Bits::ToRawDigits with emit_leading_zeros: one digit per bit in binary,
\* one digit per started group of four bits in hex.
ToRawDigits(bits, format) ==
    IF format = "kBinary" THEN RawDigits(bits.value, 2, bits.bit_count, 0)
    ELSE RawDigits(bits.value, 16, (bits.bit_count + 3) \div 4, 0)

\* Literal::Emit without the width check of the default format.
LiteralEmitUnchecked(f, n) ==
    LET l == f[n] IN
    IF l.format = "kDefault" THEN
        DecimalString(l.bits.value)
    ELSE IF l.format = "kDecimal" THEN
        StrCat(<<IF l.emit_bit_count
                 THEN DecimalString(l.bits.bit_count) \o "'d" ELSE "",
                 DecimalString(l.bits.value)>>)
    ELSE IF l.format = "kBinary" THEN
        StrCat(<<DecimalString(l.bits.bit_count), "'b",
                 ToRawDigits(l.bits, "kBinary")>>)
    ELSE IF l.format = "kHex" THEN
        StrCat(<<DecimalString(l.bits.bit_count), "'h",
                 ToRawDigits(l.bits, "kHex")>>)
    ELSE kFatal

\* Literal::Emit asking for binary digits in the hex format.
LiteralEmitHexBinaryDigits(f, n) ==
    LET l == f[n] IN
    IF l.format = "kDefault" THEN
        IF l.bits.bit_count <= 32 THEN DecimalString(l.bits.value) ELSE kFatal
    ELSE IF l.format = "kDecimal" THEN
        StrCat(<<IF l.emit_bit_count
                 THEN DecimalString(l.bits.bit_count) \o "'d" ELSE "",
                 DecimalString(l.bits.value)>>)
    ELSE IF l.format = "kBinary" THEN
        StrCat(<<DecimalString(l.bits.bit_count), "'b",
                 ToRawDigits(l.bits, "kBinary")>>)
    ELSE IF l.format = "kHex" THEN
        StrCat(<<DecimalString(l.bits.bit_count), "'h",
                 ToRawDigits(l.bits, "kBinary")>>)
    ELSE kFatal

LiteralEmit(f, n) ==
    LET l == f[n] IN
    IF l.format = "kDefault" THEN
        IF l.bits.bit_count <= 32 THEN DecimalString(l.bits.value) ELSE kFatal
    ELSE IF l.format = "kDecimal" THEN
        StrCat(<<IF l.emit_bit_count
                 THEN DecimalString(l.bits.bit_count) \o "'d" ELSE "",
                 DecimalString(l.bits.value)>>)
    ELSE IF l.format = "kBinary" THEN
        StrCat(<<DecimalString(l.bits.bit_count), "'b",
                 ToRawDigits(l.bits, "kBinary")>>)
    ELSE IF l.format = "kHex" THEN
        StrCat(<<DecimalString(l.bits.bit_count), "'h",
                 ToRawDigits(l.bits, "kHex")>>)
    ELSE kFatal

\* LogicRef::Emit is the name of the definition it refers to.
LogicRefEmit(f, n) == f[f[n].def].name

\* Unary::Emit without the nested-unary clause.
UnaryEmitPrecedenceOnly(f, n) ==
    LET arg == f[n].arg IN
    StrCat(<<f[n].op,
             IF precedence(f, arg) < precedence(f, n)
             THEN ParenWrap(Emit(f, arg)) ELSE Emit(f, arg)>>)

UnaryEmit(f, n) ==
    LET arg == f[n].arg IN
    StrCat(<<f[n].op,
             IF precedence(f, arg) < precedence(f, n) \/ IsUnary(f, arg)
             THEN ParenWrap(Emit(f, arg)) ELSE Emit(f, arg)>>)

\* BinaryInfix::Emit wrapping the right operand only on strictly lower
\* precedence, as for the left operand.
BinaryInfixEmitStrictRhs(f, n) ==
    LET lhs == f[n].lhs
        rhs == f[n].rhs
        lhs_string == IF precedence(f, lhs) < precedence(f, n)
                      THEN ParenWrap(Emit(f, lhs)) ELSE Emit(f, lhs)
        rhs_string == IF precedence(f, rhs) < precedence(f, n)
                      THEN ParenWrap(Emit(f, rhs)) ELSE Emit(f, rhs)
    IN  StrCat(<<lhs_string, " ", f[n].op, " ", rhs_string>>)

BinaryInfixEmit(f, n) ==
    LET lhs == f[n].lhs
        rhs == f[n].rhs
        lhs_string == IF precedence(f, lhs) < precedence(f, n)
                      THEN ParenWrap(Emit(f, lhs)) ELSE Emit(f, lhs)
        rhs_string == IF precedence(f, rhs) <= precedence(f, n)
                      THEN ParenWrap(Emit(f, rhs)) ELSE Emit(f, rhs)
    IN  StrCat(<<lhs_string, " ", f[n].op, " ", rhs_string>>)

\* Ternary::Emit wrapping only on strictly lower precedence.
TernaryEmitStrict(f, n) ==
    LET maybe_paren_wrap(e) ==
            IF precedence(f, e) < precedence(f, n)
            THEN ParenWrap(Emit(f, e)) ELSE Emit(f, e)
    IN  StrCat(<<maybe_paren_wrap(f[n].test), " ? ",
                 maybe_paren_wrap(f[n].consequent), " : ",
                 maybe_paren_wrap(f[n].alternate)>>)

TernaryEmit(f, n) ==
    LET maybe_paren_wrap(e) ==
            IF precedence(f, e) <= precedence(f, n)
            THEN ParenWrap(Emit(f, e)) ELSE Emit(f, e)
    IN  StrCat(<<maybe_paren_wrap(f[n].test), " ? ",
                 maybe_paren_wrap(f[n].consequent), " : ",
                 maybe_paren_wrap(f[n].alternate)>>)

\* Slice::Emit checking only the hi bound of a scalar subject.
SliceEmitHiOnly(f, n) ==
    LET s == f[n] IN
    IF IsScalar(f, s.subject) THEN
        IF ~IsLiteralWithValue(f, s.hi, 0) THEN kFatal
        ELSE Emit(f, s.subject)
    ELSE StrCat(<<Emit(f, s.subject), "[", Emit(f, s.hi), ":",
                  Emit(f, s.lo), "]">>)

SliceEmit(f, n) ==
    LET s == f[n] IN
    IF IsScalar(f, s.subject) THEN
        IF ~IsLiteralWithValue(f, s.hi, 0) THEN kFatal
        ELSE IF ~IsLiteralWithValue(f, s.lo, 0) THEN kFatal
        ELSE Emit(f, s.subject)
    ELSE StrCat(<<Emit(f, s.subject), "[", Emit(f, s.hi), ":",
                  Emit(f, s.lo), "]">>)

PartSelectEmit(f, n) ==
    LET s == f[n] IN
    StrCat(<<Emit(f, s.subject), "[", Emit(f, s.start), " +: ",
             Emit(f, s.width), "]">>)

IndexEmit(f, n) ==
    LET s == f[n] IN
    IF IsScalar(f, s.subject) THEN
        IF ~IsLiteralWithValue(f, s.index, 0) THEN kFatal
        ELSE Emit(f, s.subject)
    ELSE StrCat(<<Emit(f, s.subject), "[", Emit(f, s.index), "]">>)

\* Expression::Emit, the virtual dispatch on the node's class.
ExpressionEmit(f, n) ==
    CASE f[n].kind = "Literal" -> LiteralEmit(f, n)
      [] f[n].kind = "LogicRef" -> LogicRefEmit(f, n)
      [] f[n].kind = "Unary" -> UnaryEmit(f, n)
      [] f[n].kind = "BinaryInfix" -> BinaryInfixEmit(f, n)
      [] f[n].kind = "Ternary" -> TernaryEmit(f, n)
      [] f[n].kind = "Slice" -> SliceEmit(f, n)
      [] f[n].kind = "PartSelect" -> PartSelectEmit(f, n)
      [] f[n].kind = "Index" -> IndexEmit(f, n)

\* ------------------------------------------------------------------------
\* Statement emission
\* ------------------------------------------------------------------------

\* Indent: two spaces in front of every non-empty line of the text.
\* The characters lo..hi of s, each line start among them indented.
RECURSIVE IndentRange(_, _, _)
IndentRange(s, lo, hi) ==
    IF lo > hi THEN ""
    ELSE IF lo = hi THEN
        LET c == SubSeq(s, lo, lo)
            line_start == lo = 1 \/ SubSeq(s, lo - 1, lo - 1) = "\n"
        IN  IF line_start /\ c # "\n" THEN "  " \o c ELSE c
    ELSE LET mid == (lo + hi) \div 2
         IN  IndentRange(s, lo, mid) \o IndentRange(s, mid + 1, hi)

Indent(s) == IF s = kFatal THEN kFatal ELSE IndentRange(s, 1, Len(s))

NonblockingAssignmentEmit(f, n) ==
    StrCat(<<Emit(f, f[n].lhs), " <= ", Emit(f, f[n].rhs), ";">>)

StatementBlockEmit(f, n) ==
    LET statements == f[n].statements IN
    IF statements = <<>> THEN "begin end"
    ELSE LET lines == [i \in DOMAIN statements |-> Emit(f, statements[i])]
         IN  StrCat(<<"begin\n", Indent(StrJoin(lines, "\n")), "\nend">>)

ConditionalEmit(f, n) ==
    LET c == f[n]
        alternate_string(a) ==
            StrCat(<<" else ",
                     IF a.first # nullptr
                     THEN StrCat(<<"if (", Emit(f, a.first), ") ">>) ELSE "",
                     Emit(f, a.second)>>)
    IN  StrCat(<<"if (", Emit(f, c.condition), ") ", Emit(f, c.consequent),
                 StrCat([i \in DOMAIN c.alternates |->
                            alternate_string(c.alternates[i])])>>)

\* A sensitivity list that adds the reset edge for every reset, synchronous
\* or not.
SensitivityListAnyReset(f, n) ==
    LET a == f[n] IN
    StrCat(<<"posedge ", Emit(f, a.clk),
             IF a.rst.has_value
             THEN StrCat(<<" or ",
                           IF a.rst.active_low THEN "negedge" ELSE "posedge",
                           " ", Emit(f, a.rst.signal)>>)
             ELSE "">>)

\* The sensitivity list AlwaysFlop::Emit builds.
SensitivityList(f, n) ==
    LET a == f[n] IN
    StrCat(<<"posedge ", Emit(f, a.clk),
             IF a.rst.has_value /\ a.rst.asynchronous
             THEN StrCat(<<" or ",
                           IF a.rst.active_low THEN "negedge" ELSE "posedge",
                           " ", Emit(f, a.rst.signal)>>)
             ELSE "">>)

AlwaysFlopEmit(f, n) ==
    StrCat(<<"always @ (", SensitivityList(f, n), ") ",
             Emit(f, f[n].top_block)>>)

\* ------------------------------------------------------------------------
\* Declarations
\* ------------------------------------------------------------------------

\* The uint64 value 0 - 1 in decimal.
kUint64Max == "18446744073709551615"

\* WidthToLimit: the expression minus one.  A literal is decremented as a
\* uint64; any other expression is put under a subtraction of the literal 1,
\* both nodes living on the stack of the call.
WidthToLimit(f, expr) ==
    IF IsLiteral(f, expr) THEN
        IF f[expr].bits.value = 0 THEN kUint64Max
        ELSE DecimalString(f[expr].bits.value - 1)
    ELSE
        LET g == Append(f, [kind |-> "Literal", bits |-> [value |-> 1, bit_count |-> 32],
                          format |-> "kDefault", emit_bit_count |-> FALSE,
                          precedence |-> kMaxPrecedence])
            b == Append(g, [kind |-> "BinaryInfix", lhs |-> expr, op |-> "-",
                          rhs |-> Len(g), precedence |-> kBinarySubPrecedence])
        IN  Emit(b, Len(b))

WidthToRangeString(f, width) ==
    IF width = nullptr THEN ""
    ELSE StrCat(<<" [", WidthToLimit(f, width), ":0]">>)

PackedDimsToRangeString(f, dims) ==
    StrCat([i \in DOMAIN dims |-> StrCat(<<"[", WidthToLimit(f, dims[i]), ":0]">>)])

DataTypeEmit(f, t) ==
    StrCat(<<IF t.is_signed THEN " signed" ELSE "",
             WidthToRangeString(f, t.width),
             PackedDimsToRangeString(f, t.packed_dims)>>)

\* Def::EmitNoSemi
EmitNoSemi(f, n) ==
    StrCat(<<f[n].data_kind, DataTypeEmit(f, f[n].data_type), " ", f[n].name>>)

DefEmit(f, n) == StrCat(<<EmitNoSemi(f, n), ";">>)

\* The initializer of a register declaration, if any.
InitEmit(f, n) ==
    IF f[n].init # nullptr THEN StrCat(<<" = ", Emit(f, f[n].init)>>) ELSE ""

RegDefEmit(f, n) == StrCat(<<EmitNoSemi(f, n), InitEmit(f, n), ";">>)

\* One bound of an unpacked array: a size or a pair of limits.
UnpackedArrayBoundToString(f, bound) ==
    IF bound.pair
    THEN StrCat(<<"[", Emit(f, bound.first), ":", Emit(f, bound.second), "]">>)
    ELSE StrCat(<<"[", Emit(f, bound.first), "]">>)

\* UnpackedArrayBoundsToString with the bounds written innermost first.
UnpackedArrayBoundsReversed(f, bounds) ==
    IF Len(bounds) >= 1
    THEN StrCat([i \in DOMAIN bounds |->
                    UnpackedArrayBoundToString(f, bounds[Len(bounds) + 1 - i])])
    ELSE kFatal

UnpackedArrayBoundsToString(f, bounds) ==
    IF Len(bounds) >= 1
    THEN StrCat([i \in DOMAIN bounds |-> UnpackedArrayBoundToString(f, bounds[i])])
    ELSE kFatal

UnpackedArrayRegDefEmit(f, n) ==
    StrCat(<<EmitNoSemi(f, n), UnpackedArrayBoundsToString(f, f[n].bounds),
             InitEmit(f, n), ";">>)

UnpackedArrayWireDefEmit(f, n) ==
    StrCat(<<"wire", WidthToRangeString(f, f[n].data_type.width), " ",
             f[n].name, UnpackedArrayBoundsToString(f, f[n].bounds), ";">>)

DefKinds == {"Def", "RegDef", "UnpackedArrayRegDef", "UnpackedArrayWireDef"}

\* ------------------------------------------------------------------------
\* Modules
\* ------------------------------------------------------------------------

\* ToString(Direction)
DirectionToString(direction) ==
    CASE direction = "kInput" -> "input"
      [] direction = "kOutput" -> "output"
      [] OTHER -> "<invalid direction>"

ParameterEmit(f, n) ==
    StrCat(<<"parameter ", f[n].name, " = ", Emit(f, f[n].rhs), ";">>)

\* ModuleSection::GatherMembers: the members of the section from member i
\* on, a nested section replaced by what it gathers.
RECURSIVE GatherMembersFrom(_, _, _)
GatherMembersFrom(f, section, i) ==
    LET members == f[section].members IN
    IF i > Len(members) THEN <<>>
    ELSE (IF f[members[i]].kind = "ModuleSection"
          THEN GatherMembersFrom(f, members[i], 1)
          ELSE <<members[i]>>)
         \o GatherMembersFrom(f, section, i + 1)

\* GatherMembers that leaves a nested section where it is.
GatherMembersShallow(f, section) == f[section].members

GatherMembers(f, section) == GatherMembersFrom(f, section, 1)

ModuleSectionEmit(f, n) ==
    LET members == GatherMembers(f, n) IN
    StrJoin([i \in DOMAIN members |-> Emit(f, members[i])], "\n")

\* The port list of Module::Emit.
PortListEmit(f, ports) ==
    StrJoin([i \in DOMAIN ports |->
                StrCat(<<DirectionToString(ports[i].direction), " ",
                         EmitNoSemi(f, ports[i].wire)>>)],
            ",\n  ")

ModuleEmit(f, n) ==
    StrCat(<<"module ", f[n].name,
             IF f[n].ports = <<>> THEN ";\n"
             ELSE StrCat(<<"(\n  ", PortListEmit(f, f[n].ports), "\n);\n">>),
             Indent(Emit(f, f[n].top)), "\n",
             "endmodule">>)

VerilogFunctionEmit(f, n) ==
    LET v == f[n]
        lines == [i \in DOMAIN v.block_reg_defs |-> Emit(f, v.block_reg_defs[i])]
                     \o <<Emit(f, v.statement_block)>>
        arguments == [i \in DOMAIN v.argument_defs |->
                         StrCat(<<"input ", EmitNoSemi(f, v.argument_defs[i])>>)]
    IN  StrCat(<<"function automatic",
                 DataTypeEmit(f, f[v.return_value_def].data_type), " ", v.name,
                 " (", StrJoin(arguments, ", "), ");\n",
                 Indent(StrJoin(lines, "\n")), "\nendfunction">>)

\* The virtual Emit of a node of the arena.
Emit(f, n) ==
    CASE f[n].kind \in ExpressionKinds -> ExpressionEmit(f, n)
      [] f[n].kind = "NonblockingAssignment" -> NonblockingAssignmentEmit(f, n)
      [] f[n].kind = "StatementBlock" -> StatementBlockEmit(f, n)
      [] f[n].kind = "Conditional" -> ConditionalEmit(f, n)
      [] f[n].kind = "AlwaysFlop" -> AlwaysFlopEmit(f, n)
      [] f[n].kind = "Parameter" -> ParameterEmit(f, n)
      [] f[n].kind = "ModuleSection" -> ModuleSectionEmit(f, n)
      [] f[n].kind = "Module" -> ModuleEmit(f, n)
      [] f[n].kind = "VerilogFunction" -> VerilogFunctionEmit(f, n)
      [] f[n].kind = "Def" -> DefEmit(f, n)
      [] f[n].kind = "RegDef" -> RegDefEmit(f, n)
      [] f[n].kind = "UnpackedArrayRegDef" -> UnpackedArrayRegDefEmit(f, n)
      [] f[n].kind = "UnpackedArrayWireDef" -> UnpackedArrayWireDefEmit(f, n)

\* ------------------------------------------------------------------------
\* Construction (VerilogFile::Make<T> and the node constructors)
\* ------------------------------------------------------------------------

\* VerilogFile::Make: the node is appended to the arena; its pointer is its
\* position.
Make(f, node) == Append(f, node)

Last(f) == Len(f)

Call(op, this, args, ret) == [op |-> op, this |-> this, args |-> args, ret |-> ret]

NewDataType(width, packed_dims, is_signed) ==
    [width |-> width, packed_dims |-> packed_dims, is_signed |-> is_signed]

NewDef(data_kind, name, data_type) ==
    [kind |-> "Def", data_kind |-> data_kind, name |-> name,
     data_type |-> data_type]

NewLogicRef(def) ==
    [kind |-> "LogicRef", def |-> def, precedence |-> kMaxPrecedence]

NewRegDef(name, data_type, init) ==
    [kind |-> "RegDef", data_kind |-> "reg", name |-> name,
     data_type |-> data_type, init |-> init]

\* An UnpackedArrayBound holding a size, and one holding a pair of limits.
SizeBound(size) == [pair |-> FALSE, first |-> size, second |-> nullptr]

PairBound(first, second) == [pair |-> TRUE, first |-> first, second |-> second]

NewUnpackedArrayRegDef(name, data_type, bounds, init) ==
    [kind |-> "UnpackedArrayRegDef", data_kind |-> "reg", name |-> name,
     data_type |-> data_type, bounds |-> bounds, init |-> init]

NewUnpackedArrayWireDef(name, data_type, bounds) ==
    [kind |-> "UnpackedArrayWireDef", data_kind |-> "wire", name |-> name,
     data_type |-> data_type, bounds |-> bounds]

UBits(value, bit_count) == [value |-> value, bit_count |-> bit_count]

NewLiteral(bits, format, emit_bit_count) ==
    [kind |-> "Literal", bits |-> bits, format |-> format,
     emit_bit_count |-> emit_bit_count, precedence |-> kMaxPrecedence]

\* VerilogFile::PlainLiteral: a 32-bit literal in default format.
PlainLiteral(value) == NewLiteral(UBits(value, 32), "kDefault", TRUE)

NewUnary(op, arg, prec) ==
    [kind |-> "Unary", op |-> op, arg |-> arg, precedence |-> prec]

NewBinaryInfix(lhs, op, rhs, prec) ==
    [kind |-> "BinaryInfix", lhs |-> lhs, op |-> op, rhs |-> rhs,
     precedence |-> prec]

NewTernary(test, consequent, alternate, prec) ==
    [kind |-> "Ternary", test |-> test, consequent |-> consequent,
     alternate |-> alternate, precedence |-> prec]

NewSlice(subject, hi, lo) ==
    [kind |-> "Slice", subject |-> subject, hi |-> hi, lo |-> lo,
     precedence |-> kMaxPrecedence]

NewPartSelect(subject, start, width) ==
    [kind |-> "PartSelect", subject |-> subject, start |-> start,
     width |-> width, precedence |-> kMaxPrecedence]

NewIndex(subject, index) ==
    [kind |-> "Index", subject |-> subject, index |-> index,
     precedence |-> kMaxPrecedence]

NewStatementBlock == [kind |-> "StatementBlock", statements |-> <<>>]

NewNonblockingAssignment(lhs, rhs) ==
    [kind |-> "NonblockingAssignment", lhs |-> lhs, rhs |-> rhs]

\* StatementBlock::Add<T>: make the statement, append it to the block.
BlockAdd(f, statement_block, node) ==
    LET g == Make(f, node) IN
    [g EXCEPT ![statement_block].statements = Append(@, Last(g))]

\* A call's effect: the arena after it, what it returns, whether it aborted.
Returns(f, ret) == [file |-> f, ret |-> ret, fatal |-> FALSE]

Aborts(f) == [file |-> f, ret |-> NoReturn, fatal |-> TRUE]

\* Conditional::Conditional: the consequent block is made by the constructor.
ConditionalCtor(f, condition) ==
    LET g == Make(f, NewStatementBlock) IN
    Make(g, [kind |-> "Conditional", condition |-> condition,
             consequent |-> Last(g), alternates |-> <<>>])

\* Conditional::AddAlternate without the check that the chain is still open.
AddAlternateUnchecked(f, c, condition) ==
    LET g == Make(f, NewStatementBlock) IN
    Returns([g EXCEPT ![c].alternates =
                 Append(@, [first |-> condition, second |-> Last(g)])],
            Last(g))

AddAlternate(f, c, condition) ==
    LET alternates == f[c].alternates IN
    IF ~(alternates = <<>> \/ alternates[Len(alternates)].first # nullptr)
    THEN Aborts(f)
    ELSE LET g == Make(f, NewStatementBlock) IN
         Returns([g EXCEPT ![c].alternates =
                      Append(@, [first |-> condition, second |-> Last(g)])],
                 Last(g))

\* absl::optional<Reset>
NoReset == [has_value |-> FALSE]

Reset(signal, asynchronous, active_low) ==
    [has_value |-> TRUE, signal |-> signal, asynchronous |-> asynchronous,
     active_low |-> active_low]

\* VerilogFile::LogicalNot
LogicalNot(e) == NewUnary("!", e, kUnaryPrecedence)

AlwaysFlopCtor(f, clk, rst) ==
    LET g1 == Make(f, NewStatementBlock)
        top_block == Last(g1)
    IN  IF rst.has_value THEN
            LET g2 == IF rst.active_low
                      THEN Make(g1, LogicalNot(rst.signal)) ELSE g1
                rst_condition == IF rst.active_low THEN Last(g2) ELSE rst.signal
                g3 == ConditionalCtor(g2, rst_condition)
                conditional == Last(g3)
                g4 == [g3 EXCEPT ![top_block].statements =
                           Append(@, conditional)]
                alt == AddAlternate(g4, conditional, nullptr)
            IN  Make(alt.file,
                     [kind |-> "AlwaysFlop", clk |-> clk, rst |-> rst,
                      top_block |-> top_block,
                      reset_block |-> g4[conditional].consequent,
                      assignment_block |-> alt.ret])
        ELSE Make(g1, [kind |-> "AlwaysFlop", clk |-> clk, rst |-> rst,
                       top_block |-> top_block, reset_block |-> nullptr,
                       assignment_block |-> top_block])

\* AlwaysFlop::AddRegister appending the next-value assignment before it
\* looks at the reset value.
AddRegisterAssignFirst(f, flop, reg, reg_next, reset_value) ==
    LET a == f[flop]
        g == BlockAdd(f, a.assignment_block,
                      NewNonblockingAssignment(reg, reg_next))
    IN  IF reset_value # nullptr THEN
            IF ~(a.reset_block # nullptr) THEN Aborts(g)
            ELSE Returns(BlockAdd(g, a.reset_block,
                             NewNonblockingAssignment(reg, reset_value)),
                         NoReturn)
        ELSE Returns(g, NoReturn)

\* AlwaysFlop::AddRegister with the next-value assignment inside the branch
\* taken for a reset value.
AddRegisterInsideBranch(f, flop, reg, reg_next, reset_value) ==
    LET a == f[flop] IN
    IF reset_value # nullptr THEN
        IF ~(a.reset_block # nullptr) THEN Aborts(f)
        ELSE LET g == BlockAdd(f, a.reset_block,
                          NewNonblockingAssignment(reg, reset_value))
             IN  Returns(BlockAdd(g, a.assignment_block,
                             NewNonblockingAssignment(reg, reg_next)),
                         NoReturn)
    ELSE Returns(f, NoReturn)

\* AlwaysFlop::AddRegister putting the reset assignment into the assignment
\* block.
AddRegisterOneBlock(f, flop, reg, reg_next, reset_value) ==
    LET a == f[flop] IN
    IF reset_value # nullptr THEN
        IF ~(a.reset_block # nullptr) THEN Aborts(f)
        ELSE LET g == BlockAdd(f, a.assignment_block,
                          NewNonblockingAssignment(reg, reset_value))
             IN  Returns(BlockAdd(g, a.assignment_block,
                             NewNonblockingAssignment(reg, reg_next)),
                         NoReturn)
    ELSE Returns(BlockAdd(f, a.assignment_block,
                     NewNonblockingAssignment(reg, reg_next)),
                 NoReturn)

AddRegister(f, flop, reg, reg_next, reset_value) ==
    LET a == f[flop] IN
    IF reset_value # nullptr THEN
        IF ~(a.reset_block # nullptr) THEN Aborts(f)
        ELSE LET g == BlockAdd(f, a.reset_block,
                          NewNonblockingAssignment(reg, reset_value))
             IN  Returns(BlockAdd(g, a.assignment_block,
                             NewNonblockingAssignment(reg, reg_next)),
                         NoReturn)
    ELSE Returns(BlockAdd(f, a.assignment_block,
                     NewNonblockingAssignment(reg, reg_next)),
                 NoReturn)

\* ------------------------------------------------------------------------
\* Modules: construction
\* ------------------------------------------------------------------------

NewModuleSection == [kind |-> "ModuleSection", members |-> <<>>]

\* A Module; its top section is a member object, kept here as a node of its
\* own made with the module.
NewModule(name, top) ==
    [kind |-> "Module", name |-> name, ports |-> <<>>, top |-> top]

AddModule(f, name) ==
    LET g == Make(f, NewModuleSection) IN Make(g, NewModule(name, Last(g)))

Modules(f) == {n \in Nodes(f) : f[n].kind = "Module"}

NewParameter(name, rhs) == [kind |-> "Parameter", name |-> name, rhs |-> rhs]

NewParameterRef(parameter) ==
    [kind |-> "ParameterRef", parameter |-> parameter,
     precedence |-> kMaxPrecedence]

\* ModuleSection::Add<T>: make the member, append it to the section.
SectionAdd(f, section, node) ==
    LET g == Make(f, node) IN
    [g EXCEPT ![section].members = Append(@, Last(g))]

\* ModuleSection::Add<ModuleSection>: the new section, nested in parent.
AddSection(f, parent) ==
    LET g == SectionAdd(f, parent, NewModuleSection) IN Returns(g, Last(g))

\* Module::AddPortDef keeping the inputs before the outputs.
AddPortDefGrouped(f, m, direction, def) ==
    LET port == [direction |-> direction, wire |-> def]
        inputs == SelectSeq(f[m].ports, LAMBDA p : p.direction = "kInput")
        outputs == SelectSeq(f[m].ports, LAMBDA p : p.direction = "kOutput")
        g == [f EXCEPT ![m].ports =
                 IF direction = "kInput" THEN inputs \o <<port>> \o outputs
                 ELSE inputs \o outputs \o <<port>>]
        h == Make(g, NewLogicRef(def))
    IN  Returns(h, Last(h))

AddPortDef(f, m, direction, def) ==
    LET g == [f EXCEPT ![m].ports =
                 Append(@, [direction |-> direction, wire |-> def])]
        h == Make(g, NewLogicRef(def))
    IN  Returns(h, Last(h))

AddInput(f, m, name, type) ==
    LET g == Make(f, NewDef("wire", name, type)) IN
    AddPortDef(g, m, "kInput", Last(g))

AddOutput(f, m, name, type) ==
    LET g == Make(f, NewDef("wire", name, type)) IN
    AddPortDef(g, m, "kOutput", Last(g))

\* The section a declaration goes to: the top section when none is given.
SectionOrTop(f, m, section) == IF section = nullptr THEN f[m].top ELSE section

AddReg(f, m, name, type, init, section) ==
    LET g == SectionAdd(f, SectionOrTop(f, m, section), NewRegDef(name, type, init))
        h == Make(g, NewLogicRef(Last(g)))
    IN  Returns(h, Last(h))

AddWire(f, m, name, type, section) ==
    LET g == SectionAdd(f, SectionOrTop(f, m, section), NewDef("wire", name, type))
        h == Make(g, NewLogicRef(Last(g)))
    IN  Returns(h, Last(h))

AddParameter(f, m, name, rhs) ==
    LET g == SectionAdd(f, f[m].top, NewParameter(name, rhs))
        h == Make(g, NewParameterRef(Last(g)))
    IN  Returns(h, Last(h))

\* VerilogFunction::VerilogFunction makes the definition of the return value
\* and the statement block; module->Add<VerilogFunction> puts the function in
\* the top section.
NewVerilogFunction(name, return_value_def, statement_block) ==
    [kind |-> "VerilogFunction", name |-> name,
     return_value_def |-> return_value_def, argument_defs |-> <<>>,
     block_reg_defs |-> <<>>, statement_block |-> statement_block]

AddVerilogFunction(f, m, name, result_type) ==
    LET g == Make(f, NewRegDef(name, result_type, nullptr))
        h == Make(g, NewStatementBlock)
    IN  SectionAdd(h, f[m].top, NewVerilogFunction(name, Last(g), Last(h)))

VerilogFunctions(f) == {n \in Nodes(f) : f[n].kind = "VerilogFunction"}

AddArgument(f, fn, name, type) ==
    LET g == Make(f, NewRegDef(name, type, nullptr))
        h == [g EXCEPT ![fn].argument_defs = Append(@, Last(g))]
        r == Make(h, NewLogicRef(Last(g)))
    IN  Returns(r, Last(r))

\* VerilogFunction::return_value_ref makes a new reference at every call.
return_value_ref(f, fn) == Make(f, NewLogicRef(f[fn].return_value_def))

\* The nodes the emission of n makes: VerilogFunction::Emit calls
\* return_value_ref(); a section and a module emit their members.
RECURSIVE EmitMakes(_, _)
EmitMakes(f, n) ==
    CASE f[n].kind = "VerilogFunction" -> <<NewLogicRef(f[n].return_value_def)>>
      [] f[n].kind = "ModuleSection" ->
            LET members == GatherMembers(f, n) IN
            Concat2([i \in DOMAIN members |-> EmitMakes(f, members[i])])
      [] f[n].kind = "Module" -> EmitMakes(f, f[n].top)
      [] OTHER -> <<>>

\* ------------------------------------------------------------------------
\* Bit counts and port descriptors
\* ------------------------------------------------------------------------

\* The outcomes of a call returning absl::StatusOr: a value, a failure
\* status, or no return because a check killed the process.
OkStatus(value) == [code |-> "kOk", value |-> value]

FailedPreconditionError(message) ==
    [code |-> "kFailedPrecondition", message |-> message]

CheckFailure == [code |-> kFatal]

\* The failure status whose message ends in the emitted text of expr; the
\* message is built by expr->Emit(), which may abort.
NotALiteralError(f, what, expr) ==
    LET text == Emit(f, expr) IN
    IF text = kFatal THEN CheckFailure
    ELSE FailedPreconditionError(what \o text)

\* Bits::ToUint64: the value, which fits for every pattern of the model.
ToUint64(bits) == OkStatus(bits.value)

WidthAsInt64(f, t) ==
    IF t.width = nullptr THEN OkStatus(1)
    ELSE IF ~IsLiteral(f, t.width)
    THEN NotALiteralError(f, "Width is not a literal: ", t.width)
    ELSE ToUint64(f[t.width].bits)

\* The loop of FlatBitCountAsInt64 over the packed dimensions from i on.
RECURSIVE FlatBitCountFrom(_, _, _, _)
FlatBitCountFrom(f, dims, i, bit_count) ==
    IF i > Len(dims) THEN OkStatus(bit_count)
    ELSE IF ~IsLiteral(f, dims[i])
    THEN NotALiteralError(f, "Dimension is not a literal:", dims[i])
    ELSE LET dim_size == ToUint64(f[dims[i]].bits) IN
         IF dim_size.code # "kOk" THEN dim_size
         ELSE FlatBitCountFrom(f, dims, i + 1, bit_count * dim_size.value)

FlatBitCountAsInt64(f, t) ==
    LET bit_count == WidthAsInt64(f, t) IN
    IF bit_count.code # "kOk" THEN bit_count
    ELSE FlatBitCountFrom(f, t.packed_dims, 1, bit_count.value)

\* Port::ToProto
ToProto(f, port) ==
    LET width == FlatBitCountAsInt64(f, f[port.wire].data_type) IN
    IF width.code # "kOk" THEN width
    ELSE OkStatus([direction |-> IF port.direction = "kInput"
                                 THEN "DIRECTION_INPUT" ELSE "DIRECTION_OUTPUT",
                   name |-> f[port.wire].name,
                   width |-> width.value])

\* VerilogFile::DataTypeOfWidth without the check of the bit count.
DataTypeOfWidthUnchecked(f, bit_count) ==
    IF bit_count = 1 THEN Returns(f, NewDataType(nullptr, <<>>, FALSE))
    ELSE LET g == Make(f, PlainLiteral(bit_count))
         IN  Returns(g, NewDataType(Last(g), <<>>, FALSE))

DataTypeOfWidth(f, bit_count) ==
    IF ~(bit_count > 0) THEN Aborts(f)
    ELSE IF bit_count = 1 THEN Returns(f, NewDataType(nullptr, <<>>, FALSE))
    ELSE LET g == Make(f, PlainLiteral(bit_count))
         IN  Returns(g, NewDataType(Last(g), <<>>, FALSE))

\* Port::FromProto
FromProto(f, proto) ==
    LET type == DataTypeOfWidth(f, proto.width) IN
    IF type.fatal THEN Aborts(f)
    ELSE LET g == Make(type.file, NewDef("wire", proto.name, type.ret))
         IN  Returns(g, [direction |-> IF proto.direction = "DIRECTION_INPUT"
                                       THEN "kInput" ELSE "kOutput",
                         wire |-> Last(g)])

\* The loop of GetBitsForDirection over the ports from i on.
RECURSIVE GetBitsFrom(_, _, _, _, _)
GetBitsFrom(f, ports, direction, i, result) ==
    IF i > Len(ports) THEN OkStatus(result)
    ELSE IF ports[i].direction # direction
    THEN GetBitsFrom(f, ports, direction, i + 1, result)
    ELSE LET width == FlatBitCountAsInt64(f, f[ports[i].wire].data_type) IN
         IF width.code # "kOk" THEN width
         ELSE GetBitsFrom(f, ports, direction, i + 1, result + width.value)

GetBitsForDirection(f, ports, direction) ==
    GetBitsFrom(f, ports, direction, 1, 0)

GetInputBits(f, ports) == GetBitsForDirection(f, ports, "kInput")

GetOutputBits(f, ports) == GetBitsForDirection(f, ports, "kOutput")

\* ------------------------------------------------------------------------
\* Inputs
\* ------------------------------------------------------------------------

ScalarType == NewDataType(nullptr, <<>>, FALSE)

\* A wire definition and a reference to it (what Module::AddWire makes in the
\* arena).
MakeWireRef(f, name, data_type) ==
    LET g == Make(f, NewDef("wire", name, data_type)) IN
    Make(g, NewLogicRef(Last(g)))

\* The reference to the definition called name.
Ref(f, name) ==
    CHOOSE n \in Nodes(f) : IsLogicRef(f, n) /\ f[f[n].def].name = name

\* The references to the definitions called one of names.
Refs(f, names) ==
    {n \in Nodes(f) : IsLogicRef(f, n) /\ f[f[n].def].name \in names}

\* The literals of one of the given values.
Lits(f, values) ==
    {n \in Nodes(f) : IsLiteral(f, n) /\ f[n].bits.value \in values}

UnaryOps == {"-", "!"}

BinaryOps ==
    {[op |-> "-", precedence |-> kBinarySubPrecedence],
     [op |-> "*", precedence |-> kBinaryMulPrecedence]}

OperatorKinds == {"Unary", "BinaryInfix", "Ternary"}

SelectKinds == {"Slice", "PartSelect", "Index"}

NodesOfKinds(f, kinds) == {n \in Nodes(f) : f[n].kind \in kinds}

\* Operands offered as slice bounds and indices: the literals and the vector
\* references.
BoundOperands(f) ==
    {n \in Nodes(f) : IsLiteral(f, n) \/ (IsLogicRef(f, n) /\ ~IsScalar(f, n))}

Indexables(f) == {n \in Nodes(f) : IsIndexableExpression(f, n)}

Flops(f) == NodesOfKinds(f, {"AlwaysFlop"})

Conditionals(f) == NodesOfKinds(f, {"Conditional"})

\* ------------------------------------------------------------------------
\* Actions
\* ------------------------------------------------------------------------

\* File::Make<Unary>
MakeUnary ==
    /\ ~fatal
    /\ Cardinality(NodesOfKinds(file, OperatorKinds)) < MaxExprNodes
    /\ \E op \in UnaryOps, arg \in Expressions(file) :
        /\ file' = Make(file, NewUnary(op, arg, kUnaryPrecedence))
        /\ out' = Call("Make", nullptr, <<"Unary", op, arg>>, Last(file'))
    /\ UNCHANGED <<fatal, history, ir_vars>>

\* File::Make<BinaryInfix>
MakeBinaryInfix ==
    /\ ~fatal
    /\ Cardinality(NodesOfKinds(file, OperatorKinds)) < MaxExprNodes
    /\ \E o \in BinaryOps, lhs \in Expressions(file), rhs \in Expressions(file) :
        /\ file' = Make(file, NewBinaryInfix(lhs, o.op, rhs, o.precedence))
        /\ out' = Call("Make", nullptr, <<"BinaryInfix", lhs, o.op, rhs>>,
                       Last(file'))
    /\ UNCHANGED <<fatal, history, ir_vars>>

\* File::Make<Ternary>
MakeTernary ==
    /\ ~fatal
    /\ Cardinality(NodesOfKinds(file, OperatorKinds)) < MaxExprNodes
    /\ \E test \in Expressions(file), consequent \in Expressions(file),
          alternate \in Expressions(file) :
        /\ file' = Make(file, NewTernary(test, consequent, alternate,
                                         kTernaryPrecedence))
        /\ out' = Call("Make", nullptr,
                       <<"Ternary", test, consequent, alternate>>, Last(file'))
    /\ UNCHANGED <<fatal, history, ir_vars>>

\* File::Make<Slice>
MakeSlice ==
    /\ ~fatal
    /\ Cardinality(NodesOfKinds(file, SelectKinds)) < MaxSelectNodes
    /\ \E subject \in Indexables(file), hi \in BoundOperands(file),
          lo \in BoundOperands(file) :
        /\ file' = Make(file, NewSlice(subject, hi, lo))
        /\ out' = Call("Make", nullptr, <<"Slice", subject, hi, lo>>,
                       Last(file'))
    /\ UNCHANGED <<fatal, history, ir_vars>>

\* File::Make<PartSelect>
MakePartSelect ==
    /\ ~fatal
    /\ Cardinality(NodesOfKinds(file, SelectKinds)) < MaxSelectNodes
    /\ \E subject \in Indexables(file), start \in BoundOperands(file),
          width \in BoundOperands(file) :
        /\ file' = Make(file, NewPartSelect(subject, start, width))
        /\ out' = Call("Make", nullptr, <<"PartSelect", subject, start, width>>,
                       Last(file'))
    /\ UNCHANGED <<fatal, history, ir_vars>>

\* File::Make<Index>
MakeIndex ==
    /\ ~fatal
    /\ Cardinality(NodesOfKinds(file, SelectKinds)) < MaxSelectNodes
    /\ \E subject \in Indexables(file), index \in BoundOperands(file) :
        /\ file' = Make(file, NewIndex(subject, index))
        /\ out' = Call("Make", nullptr, <<"Index", subject, index>>,
                       Last(file'))
    /\ UNCHANGED <<fatal, history, ir_vars>>

\* A call of n->Emit(): returns the text, having made the nodes the emission
\* makes, or the process aborts.
EmitCall(n) ==
    LET text == Emit(file, n) IN
    /\ ~fatal
    /\ fatal' = (text = kFatal)
    /\ out' = Call("Emit", n, <<>>, IF text = kFatal THEN NoReturn ELSE text)
    /\ file' = IF text = kFatal THEN file ELSE file \o EmitMakes(file, n)
    /\ UNCHANGED <<history, ir_vars>>

EmitExpression == \E n \in Expressions(file) : EmitCall(n)

EmitAlwaysFlop == \E n \in Flops(file) : EmitCall(n)

EmitConditional == \E n \in Conditionals(file) : EmitCall(n)

\* A builder call: the arena and the log change if it returns, the process
\* aborts otherwise.
BuilderCall(call, effect) ==
    /\ ~fatal
    /\ file' = effect.file
    /\ fatal' = effect.fatal
    /\ out' = [call EXCEPT !.ret = effect.ret]
    /\ history' = IF effect.fatal THEN history ELSE Append(history, out')
    /\ UNCHANGED ir_vars

RegisterInputs == {"q", "r"}

NextInputs == {"d"}

\* flop->AddRegister(reg, reg_next, reset_value)
AddRegisterCall ==
    /\ Len(history) < MaxRegisters
    /\ Flops(file) # {}
    /\ \E flop \in Flops(file), reg \in Refs(file, RegisterInputs),
          reg_next \in Refs(file, NextInputs),
          reset_value \in {nullptr} \cup Lits(file, {0}) :
        BuilderCall(
            Call("AddRegister", flop, <<reg, reg_next, reset_value>>, NoReturn),
            AddRegister(file, flop, reg, reg_next, reset_value))

ConditionInputs == {"a", "b", "c"}

\* conditional->AddAlternate(condition)
AddAlternateCall ==
    /\ Len(history) < MaxAlternates
    /\ Conditionals(file) # {}
    /\ \E c \in Conditionals(file),
          condition \in {nullptr} \cup Refs(file, ConditionInputs) :
        BuilderCall(Call("AddAlternate", c, <<condition>>, NoReturn),
                    AddAlternate(file, c, condition))

\* ------------------------------------------------------------------------
\* Specifications
\* ------------------------------------------------------------------------

\* No Block, IntervalSet or Experiment exists beside the VerilogFile.
NoIrObjects ==
    /\ block = NoObject
    /\ interval_set = NoObject
    /\ experiment = NoObject

Start(f) ==
    /\ file = f
    /\ out = Call("Make", nullptr, <<>>, Last(f))
    /\ fatal = FALSE
    /\ history = <<>>
    /\ NoIrObjects

\* Expression building over two references.
InitExpr == Start(MakeWireRef(MakeWireRef(<<>>, "a", ScalarType), "b", ScalarType))

NextExpr == MakeUnary \/ MakeBinaryInfix \/ EmitExpression

SpecExpr == InitExpr /\ [][NextExpr]_vars

NextTernary == MakeTernary \/ MakeUnary \/ EmitExpression

SpecTernary == InitExpr /\ [][NextTernary]_vars

\* Selection from a vector v and a scalar s with the literals 0 and 2.
InitSelect ==
    LET f1 == Make(<<>>, PlainLiteral(2))
        f2 == MakeWireRef(f1, "v", NewDataType(Last(f1), <<>>, FALSE))
        f3 == MakeWireRef(f2, "s", ScalarType)
    IN  Start(Make(f3, PlainLiteral(0)))

NextSelect == MakeSlice \/ MakeIndex \/ EmitExpression

SpecSelect == InitSelect /\ [][NextSelect]_vars

NextPartSelect == MakePartSelect \/ MakeIndex \/ EmitExpression

SpecPartSelect == InitSelect /\ [][NextPartSelect]_vars

ResetInputs(signal) ==
    {NoReset} \cup {Reset(signal, asynchronous, active_low) :
                        asynchronous \in BOOLEAN, active_low \in BOOLEAN}

\* One AlwaysFlop, just constructed, over the signals it will be given.
InitFlop ==
    LET f1 == MakeWireRef(<<>>, "clk", ScalarType)
        f2 == MakeWireRef(f1, "rst", ScalarType)
        f3 == MakeWireRef(f2, "q", ScalarType)
        f4 == MakeWireRef(f3, "r", ScalarType)
        f5 == MakeWireRef(f4, "d", ScalarType)
        f6 == Make(f5, PlainLiteral(0))
    IN  \E rst \in ResetInputs(Ref(f6, "rst")) :
            Start(AlwaysFlopCtor(f6, Ref(f6, "clk"), rst))

NextFlop == AddRegisterCall \/ EmitAlwaysFlop

SpecFlop == InitFlop /\ [][NextFlop]_vars

\* One Conditional, just constructed.
InitCond ==
    LET f1 == MakeWireRef(<<>>, "a", ScalarType)
        f2 == MakeWireRef(f1, "b", ScalarType)
        f3 == MakeWireRef(f2, "c", ScalarType)
    IN  Start(ConditionalCtor(f3, Ref(f3, "a")))

NextCond == AddAlternateCall \/ EmitConditional

SpecCond == InitCond /\ [][NextCond]_vars

\* The literals of the small bit counts, every bit pattern of each.
SmallBits ==
    {b \in [value : 0..(2 ^ MaxLiteralBits - 1), bit_count : 1..MaxLiteralBits] :
        b.value < 2 ^ b.bit_count}

\* Some literals of a byte, of the widest default-format bit count and of
\* one bit more.
WideBits == {UBits(v, w) : v \in {0, 1, 42}, w \in {8, 32, 33}}

FormatPreferences == {"kDefault", "kDecimal", "kBinary", "kHex"}

\* One literal, of any format and flag, then calls of Emit.
InitLiteral ==
    \E bits \in SmallBits \cup WideBits, format \in FormatPreferences,
       emit_bit_count \in BOOLEAN :
        Start(Make(<<>>, NewLiteral(bits, format, emit_bit_count)))

NextLiteral == EmitExpression

SpecLiteral == InitLiteral /\ [][NextLiteral]_vars

\* The sequences over S of at most n elements.
SeqsUpTo(S, n) == UNION {[1..k -> S] : k \in 0..n}

\* The literals 0, 3 and 4.
LiteralOperands ==
    LET f1 == Make(<<>>, PlainLiteral(0))
        f2 == Make(f1, PlainLiteral(3))
    IN  Make(f2, PlainLiteral(4))

\* The expressions declarations are built from: the literals and a
\* reference N.
DeclOperands == MakeWireRef(LiteralOperands, "N", ScalarType)

\* The data types over the operands of f: no width, a literal or a
\* non-literal width; signed or not; none, one or two packed dimensions.
DataTypes(f) ==
    LET four == CHOOSE n \in Lits(f, {4}) : TRUE
        N == Ref(f, "N")
    IN  {NewDataType(width, packed_dims, is_signed) :
            width \in {nullptr, four, N},
            packed_dims \in {<<>>, <<four>>, <<N, four>>},
            is_signed \in BOOLEAN}

\* The unpacked bounds over the operands of f: [4], [N] and [0:3].
UnpackedArrayBounds(f) ==
    LET lit(v) == CHOOSE n \in Lits(f, {v}) : TRUE IN
    {SizeBound(lit(4)), SizeBound(Ref(f, "N")), PairBound(lit(0), lit(3))}

\* One unpacked-array declaration called mem, then calls of Emit.
InitDecl ==
    LET f == DeclOperands IN
    \E data_type \in DataTypes(f),
       bounds \in SeqsUpTo(UnpackedArrayBounds(f), MaxBounds),
       init \in {nullptr} \cup Lits(f, {0}) :
        \/ Start(Make(f, NewUnpackedArrayRegDef("mem", data_type, bounds, init)))
        \/ /\ init = nullptr
           /\ Start(Make(f, NewUnpackedArrayWireDef("mem", data_type, bounds)))

EmitDef == \E n \in NodesOfKinds(file, DefKinds) : EmitCall(n)

NextDecl == EmitDef

SpecDecl == InitDecl /\ [][NextDecl]_vars

\* A call returning absl::StatusOr: out holds the status, or the process
\* aborts.
StatusCall(call, status) ==
    /\ ~fatal
    /\ fatal' = (status = CheckFailure)
    /\ out' = [call EXCEPT !.ret = IF status = CheckFailure THEN NoReturn ELSE status]
    /\ UNCHANGED <<file, history, ir_vars>>

\* def->FlatBitCountAsInt64()
FlatBitCountCall ==
    \E def \in NodesOfKinds(file, {"Def"}) :
        StatusCall(Call("FlatBitCountAsInt64", def, <<>>, NoReturn),
                   FlatBitCountAsInt64(file, file[def].data_type))

\* The operands of the declarations and N[3], an index into the scalar N,
\* whose emission aborts.
WidthOperands ==
    LET f == DeclOperands IN
    Make(f, NewIndex(Ref(f, "N"), CHOOSE n \in Lits(f, {3}) : TRUE))

\* The widths and packed dimensions bit counts are taken of: the literals 3
\* and 4, the reference N, the index N[3].
WidthExpressions(f) ==
    Lits(f, {3, 4}) \cup Refs(f, {"N"}) \cup NodesOfKinds(f, {"Index"})

\* One wire w of any width and up to MaxPackedDims packed dimensions.
InitBitCount ==
    LET f == WidthOperands IN
    \E width \in {nullptr} \cup WidthExpressions(f),
       packed_dims \in SeqsUpTo(WidthExpressions(f), MaxPackedDims),
       is_signed \in BOOLEAN :
        Start(Make(f, NewDef("wire", "w",
                             NewDataType(width, packed_dims, is_signed))))

NextBitCount == FlatBitCountCall

SpecBitCount == InitBitCount /\ [][NextBitCount]_vars

\* The data types of ports and declarations over the operands of f: one
\* bit, or any width expression of f.
SignalTypes(f) ==
    {ScalarType}
        \cup {NewDataType(width, <<>>, FALSE) :
                 width \in Lits(f, {4}) \cup Refs(f, {"N"})
                           \cup NodesOfKinds(f, {"Index"})}

PortNames == {"a", "b"}

\* module->AddInput(name, type)
AddInputCall ==
    /\ Len(history) < MaxModuleCalls
    /\ \E m \in Modules(file), name \in PortNames, type \in SignalTypes(file) :
        /\ Len(file[m].ports) < MaxPorts
        /\ BuilderCall(Call("AddInput", m, <<name, type>>, NoReturn),
                       AddInput(file, m, name, type))

\* module->AddOutput(name, type)
AddOutputCall ==
    /\ Len(history) < MaxModuleCalls
    /\ \E m \in Modules(file), name \in PortNames, type \in SignalTypes(file) :
        /\ Len(file[m].ports) < MaxPorts
        /\ BuilderCall(Call("AddOutput", m, <<name, type>>, NoReturn),
                       AddOutput(file, m, name, type))

\* The sections made by ModuleSection::Add, as opposed to a module's top.
NestedSections(f) ==
    {n \in NodesOfKinds(f, {"ModuleSection"}) : \A m \in Modules(f) : f[m].top # n}

\* module->AddWire("x", DataType(), section)
AddWireCall ==
    /\ Len(history) < MaxModuleCalls
    /\ \E m \in Modules(file), section \in {nullptr} \cup NestedSections(file) :
        BuilderCall(Call("AddWire", m, <<"x", ScalarType, section>>, NoReturn),
                    AddWire(file, m, "x", ScalarType, section))

\* module->AddReg("r", type, init)
AddRegCall ==
    /\ Len(history) < MaxModuleCalls
    /\ \E m \in Modules(file), init \in {nullptr} \cup Lits(file, {0}) :
        BuilderCall(Call("AddReg", m, <<"r", ScalarType, init, nullptr>>, NoReturn),
                    AddReg(file, m, "r", ScalarType, init, nullptr))

\* module->AddParameter("P", rhs)
AddParameterCall ==
    /\ Len(history) < MaxModuleCalls
    /\ \E m \in Modules(file), rhs \in Lits(file, {3}) :
        BuilderCall(Call("AddParameter", m, <<"P", rhs>>, NoReturn),
                    AddParameter(file, m, "P", rhs))

EmitModule == \E m \in Modules(file) : EmitCall(m)

\* An empty module m and the literals.
InitModule == Start(AddModule(LiteralOperands, "m"))

NextModule ==
    \/ AddInputCall \/ AddOutputCall \/ AddWireCall \/ AddRegCall
    \/ AddParameterCall \/ EmitModule

SpecModule == InitModule /\ [][NextModule]_vars

\* section->Add<ModuleSection>(file)
AddSectionCall ==
    /\ Len(history) < MaxModuleCalls
    /\ \E parent \in NodesOfKinds(file, {"ModuleSection"}) :
        BuilderCall(Call("Add<ModuleSection>", parent, <<>>, NoReturn),
                    AddSection(file, parent))

EmitSection == \E n \in NodesOfKinds(file, {"ModuleSection"}) : EmitCall(n)

NextSection == AddSectionCall \/ AddWireCall \/ AddRegCall \/ EmitSection

SpecSection == InitModule /\ [][NextSection]_vars

\* function->AddArgument("p", type)
AddArgumentCall ==
    /\ Len(history) < MaxModuleCalls
    /\ \E fn \in VerilogFunctions(file), type \in SignalTypes(file) :
        BuilderCall(Call("AddArgument", fn, <<"p", type>>, NoReturn),
                    AddArgument(file, fn, "p", type))

EmitFunction ==
    /\ Len(file) < MaxFileNodes
    /\ \E n \in VerilogFunctions(file) : EmitCall(n)

EmitFunctionModule == Len(file) < MaxFileNodes /\ EmitModule

\* A module m holding a function fn.
InitFunction ==
    LET f == AddModule(LiteralOperands, "m") IN
    \E result_type \in SignalTypes(f) :
        Start(AddVerilogFunction(f, Last(f), "fn", result_type))

NextFunction ==
    \/ AddArgumentCall \/ AddWireCall \/ EmitFunction \/ EmitFunctionModule
    \/ EmitDef

SpecFunction == InitFunction /\ [][NextFunction]_vars

\* module->ports()[i].ToProto()
ToProtoCall ==
    \E m \in Modules(file) : \E i \in DOMAIN file[m].ports :
        StatusCall(Call("ToProto", m, <<i>>, NoReturn),
                   ToProto(file, file[m].ports[i]))

\* GetInputBits(module->ports())
GetInputBitsCall ==
    \E m \in Modules(file) :
        StatusCall(Call("GetInputBits", m, <<>>, NoReturn),
                   GetInputBits(file, file[m].ports))

\* GetOutputBits(module->ports())
GetOutputBitsCall ==
    \E m \in Modules(file) :
        StatusCall(Call("GetOutputBits", m, <<>>, NoReturn),
                   GetOutputBits(file, file[m].ports))

\* An empty module m over the width expressions 4, N and N[3].
InitPort == Start(AddModule(WidthOperands, "m"))

NextPort ==
    \/ AddInputCall \/ AddOutputCall
    \/ ToProtoCall \/ GetInputBitsCall \/ GetOutputBitsCall

SpecPort == InitPort /\ [][NextPort]_vars

\* The width expressions of SpecWidth: the literals 0, 3 and 4, the
\* reference N, and N - 4, N * 4 and N ? 4 : 3.
RangeOperands ==
    LET f == DeclOperands
        N == Ref(f, "N")
        three == CHOOSE n \in Lits(f, {3}) : TRUE
        four == CHOOSE n \in Lits(f, {4}) : TRUE
        f1 == Make(f, NewBinaryInfix(N, "-", four, kBinarySubPrecedence))
        f2 == Make(f1, NewBinaryInfix(N, "*", four, kBinaryMulPrecedence))
    IN  Make(f2, NewTernary(N, four, three, kTernaryPrecedence))

\* One wire w whose width and packed dimensions are any of the width
\* expressions, then calls of Emit.
InitWidth ==
    LET f == RangeOperands IN
    \E width \in {nullptr} \cup Expressions(f),
       packed_dims \in SeqsUpTo(Expressions(f), MaxPackedDims) :
        Start(Make(f, NewDef("wire", "w",
                             NewDataType(width, packed_dims, FALSE))))

NextWidth == EmitDef

SpecWidth == InitWidth /\ [][NextWidth]_vars

\* The characters names are drawn from: letters, digits, an underscore and
\* two characters that are not alphanumeric.
NameChars == {"a", "Z", "7", "0", "_", "$", " "}

RECURSIVE NamesUpTo(_)
NamesUpTo(n) ==
    IF n = 0 THEN {""}
    ELSE LET shorter == NamesUpTo(n - 1)
         IN  shorter \cup {name \o c : name \in shorter, c \in NameChars}

\* The name is drawn at the start and SanitizeIdentifier is applied to it.
InitSanitize ==
    \E name \in NamesUpTo(MaxNameLen) :
        /\ file = <<>>
        /\ out = Call("", nullptr, <<name>>, NoReturn)
        /\ fatal = FALSE
        /\ history = <<>>
        /\ NoIrObjects

SanitizeCall ==
    /\ out.op = ""
    /\ out' = Call("SanitizeIdentifier", nullptr, out.args,
                   SanitizeIdentifier(out.args[1]))
    /\ UNCHANGED <<file, fatal, history, ir_vars>>

NextSanitize == SanitizeCall

SpecSanitize == InitSanitize /\ [][NextSanitize]_vars

\* The values of the direction field of a port descriptor.
Directions == {"DIRECTION_INVALID", "DIRECTION_INPUT", "DIRECTION_OUTPUT"}

PortProtos ==
    [direction : Directions, name : {"a", "b", "clk"}, width : -1..MaxProtoWidth]

\* A descriptor is drawn at the start; FromProto makes a port of it in an
\* empty file and ToProto converts the port back.
InitProto ==
    \E proto \in PortProtos :
        /\ file = <<>>
        /\ out = Call("", nullptr, <<proto>>, NoReturn)
        /\ fatal = FALSE
        /\ history = <<>>
        /\ NoIrObjects

FromProtoCall ==
    /\ out.op = ""
    /\ BuilderCall(Call("FromProto", nullptr, out.args, NoReturn),
                   FromProto(file, out.args[1]))

PortToProtoCall ==
    /\ out.op = "FromProto"
    /\ StatusCall(Call("ToProto", nullptr, <<out.ret>>, NoReturn),
                  ToProto(file, out.ret))

NextProto == FromProtoCall \/ PortToProtoCall

SpecProto == InitProto /\ [][NextProto]_vars

\* ------------------------------------------------------------------------
\* Format strings
\* ------------------------------------------------------------------------

\* A FormatStep holding a string fragment, or a FormatPreference.
StringStep(fragment) == [holds |-> "std::string", value |-> fragment]

PreferenceStep(preference) == [holds |-> "FormatPreference", value |-> preference]

\* absl::InvalidArgumentError
InvalidArgumentError == [code |-> "kInvalidArgument"]

\* format_string.substr(i, m.length()) == m, positions counted from 1.
SubstrIs(format_string, i, m) ==
    /\ i + Len(m) - 1 <= Len(format_string)
    /\ SubSeq(format_string, i, i + Len(m) - 1) = m

\* The lambda push_fragment pushing the fragment even when it is empty.
push_fragment_always(steps, fragment) == Append(steps, StringStep(fragment))

\* The lambda push_fragment: the steps after it (the fragment is cleared by
\* the caller passing "" on).
push_fragment(steps, fragment) ==
    IF fragment # "" THEN Append(steps, StringStep(fragment)) ELSE steps

\* The format specifiers, in the order the loop tries them, and the
\* preference each one stands for.
kSpecifiers ==
    << <<"{}", "kDefault">>, <<"{:d}", "kDecimal">>, <<"{:x}", "kPlainHex">>,
       <<"{:#x}", "kHex">>, <<"{:b}", "kPlainBinary">>, <<"{:#b}", "kBinary">> >>

\* The first specifier from position k of kSpecifiers on that format_string
\* holds at i, or 0.
RECURSIVE SpecifierAt(_, _, _)
SpecifierAt(format_string, i, k) ==
    IF k > Len(kSpecifiers) THEN 0
    ELSE IF SubstrIs(format_string, i, kSpecifiers[k][1]) THEN k
    ELSE SpecifierAt(format_string, i, k + 1)

\* The while loop of ParseFormatString from position i on.
RECURSIVE ParseFrom(_, _, _, _)
ParseFrom(format_string, i, fragment, steps) ==
    IF ~(i <= Len(format_string))
    THEN OkStatus(push_fragment(steps, fragment))
    ELSE IF SubstrIs(format_string, i, "{{")
    THEN ParseFrom(format_string, i + 2, fragment \o "{", steps)
    ELSE IF SubstrIs(format_string, i, "}}")
    THEN ParseFrom(format_string, i + 2, fragment \o "}", steps)
    ELSE LET k == SpecifierAt(format_string, i, 1) IN
         IF k # 0
         THEN ParseFrom(format_string, i + Len(kSpecifiers[k][1]), "",
                        Append(push_fragment(steps, fragment),
                               PreferenceStep(kSpecifiers[k][2])))
         ELSE IF CharAt(format_string, i) = "{" THEN InvalidArgumentError
         ELSE IF CharAt(format_string, i) = "}" THEN InvalidArgumentError
         ELSE ParseFrom(format_string, i + 1,
                        fragment \o CharAt(format_string, i), steps)

ParseFormatString(format_string) == ParseFrom(format_string, 1, "", <<>>)

OperandsExpectedByFormat(format) ==
    Cardinality({i \in DOMAIN format : format[i].holds = "FormatPreference"})

\* The pieces format strings are put together from: the escapes, the
\* specifiers, plain text, and pieces of braces and specifiers.
FormatPieces ==
    {"{{", "}}", "{}", "{:d}", "{:x}", "{:#x}", "{:b}", "{:#b}",
     "a", "{", "}", "{:", "x}"}

FormatStrings == {Concat(pieces) : pieces \in SeqsUpTo(FormatPieces, MaxPieces)}

\* A format string is drawn at the start and parsed.
InitFormat ==
    \E format_string \in FormatStrings :
        /\ file = <<>>
        /\ out = Call("", nullptr, <<format_string>>, NoReturn)
        /\ fatal = FALSE
        /\ history = <<>>
        /\ NoIrObjects

ParseFormatStringCall ==
    /\ out.op = ""
    /\ out' = Call("ParseFormatString", nullptr, out.args,
                   ParseFormatString(out.args[1]))
    /\ UNCHANGED <<file, fatal, history, ir_vars>>

\* OperandsExpectedByFormat of the steps a parse returned.
OperandsExpectedByFormatCall ==
    /\ out.op = "ParseFormatString"
    /\ out.ret.code = "kOk"
    /\ out' = Call("OperandsExpectedByFormat", nullptr,
                   <<out.args[1], out.ret.value>>,
                   OperandsExpectedByFormat(out.ret.value))
    /\ UNCHANGED <<file, fatal, history, ir_vars>>

NextFormat == ParseFormatStringCall \/ OperandsExpectedByFormatCall

SpecFormat == InitFormat /\ [][NextFormat]_vars

\* ------------------------------------------------------------------------
\* IntervalSet
\* ------------------------------------------------------------------------

\* IntervalSet::IntervalSet()
DefaultIntervalSet == [is_normalized_ |-> TRUE, bit_count_ |-> -1, intervals_ |-> <<>>]

\* IntervalSet::IntervalSet(int64_t bit_count)
NewIntervalSet(bit_count) ==
    [is_normalized_ |-> TRUE, bit_count_ |-> bit_count, intervals_ |-> <<>>]

\* Interval(lower, upper) over Bits of the same width; BitCount() is that
\* width.
NewInterval(lower, upper, bit_count) ==
    [lower_bound |-> UBits(lower, bit_count), upper_bound |-> UBits(upper, bit_count)]

IntervalBitCount(interval) == interval.lower_bound.bit_count

\* The intervals given to AddInterval: both bounds zero or all ones.
Intervals ==
    {NewInterval(lower, upper, bit_count) :
        lower \in {0, 1}, upper \in {0, 1}, bit_count \in 1..MaxIntervalBits}
    \cup {NewInterval(0, 0, 0)}

\* The outcome of a call on an IntervalSet: the set after it, the value
\* returned, and whether an XLS_CHECK failed.
SetReturns(s, ret) == [set |-> s, ret |-> ret, fatal |-> FALSE]

SetAborts(s) == [set |-> s, ret |-> NoReturn, fatal |-> TRUE]

NumberOfIntervals(s) == SetReturns(s, Len(s.intervals_))

IntervalSetIntervals(s) ==
    IF ~s.is_normalized_ THEN SetAborts(s) ELSE SetReturns(s, s.intervals_)

BitCount(s) ==
    IF ~(s.bit_count_ >= 0) THEN SetAborts(s) ELSE SetReturns(s, s.bit_count_)

AddInterval(s, interval) ==
    LET t == [s EXCEPT !.is_normalized_ = FALSE]
        bit_count == BitCount(t)
    IN  IF bit_count.fatal THEN SetAborts(t)
        ELSE IF bit_count.ret # IntervalBitCount(interval) THEN SetAborts(t)
        ELSE SetReturns([t EXCEPT !.intervals_ = Append(@, interval)], NoReturn)

SetCall(call, effect) ==
    /\ ~fatal
    /\ interval_set' = effect.set
    /\ fatal' = effect.fatal
    /\ out' = [call EXCEPT !.ret = effect.ret]
    /\ UNCHANGED <<vast_vars, block, experiment>>

NumberOfIntervalsCall ==
    SetCall(Call("NumberOfIntervals", nullptr, <<>>, NoReturn),
            NumberOfIntervals(interval_set))

IntervalsCall ==
    SetCall(Call("Intervals", nullptr, <<>>, NoReturn),
            IntervalSetIntervals(interval_set))

BitCountCall ==
    SetCall(Call("BitCount", nullptr, <<>>, NoReturn), BitCount(interval_set))

AddIntervalCall ==
    /\ Len(interval_set.intervals_) < MaxIntervals
    /\ \E interval \in Intervals :
           SetCall(Call("AddInterval", nullptr, <<interval>>, NoReturn),
                   AddInterval(interval_set, interval))

\* A default-constructed set, or an empty set of a given bit count.
InitIntervalSet ==
    /\ file = <<>>
    /\ history = <<>>
    /\ fatal = FALSE
    /\ out = Call("", nullptr, <<>>, NoReturn)
    /\ block = NoObject
    /\ experiment = NoObject
    /\ interval_set \in {DefaultIntervalSet}
                        \cup {NewIntervalSet(n) : n \in 0..MaxIntervalBits}

NextIntervalSet ==
    \/ NumberOfIntervalsCall \/ IntervalsCall \/ BitCountCall \/ AddIntervalCall

SpecIntervalSet == InitIntervalSet /\ [][NextIntervalSet]_vars

\* ------------------------------------------------------------------------
\* Experiment
\* ------------------------------------------------------------------------

\* absl::InternalError, the status of a failed XLS_RET_CHECK.
InternalError == [code |-> "kInternal"]

\* An ExperimentConfig: the traffic and the network configuration.
NewExperimentConfig(traffic, network) == [traffic_ |-> traffic, network_ |-> network]

ExperimentConfigs == {NewExperimentConfig(t, n) : t \in 0..1, n \in 0..1}

\* The SweepStep functors: each sets one field of the config it is given and
\* returns OK or an error.
SweepSteps ==
    [field : {"traffic_", "network_"}, value : {1}, status : {"kOk", "kUnknown"}]

\* The call step(config) of a SweepStep functor.
InvokeStep(step, config) ==
    [status |-> IF step.status = "kOk" THEN OkStatus(NoReturn)
                ELSE [code |-> step.status],
     config |-> IF step.field = "traffic_"
                THEN [config EXCEPT !.traffic_ = step.value]
                ELSE [config EXCEPT !.network_ = step.value]]

\* The outcome of ApplyMutationStep: the status returned, the caller's config
\* after the call, the positions in steps_ of the functors invoked, and
\* whether the process crashed.
Applied(status, config, invoked) ==
    [status |-> status, config |-> config, invoked |-> invoked, crashed |-> FALSE]

Crashed(config) ==
    [status |-> CheckFailure, config |-> config, invoked |-> <<>>, crashed |-> TRUE]

\* The outcomes of reading steps_[index - 1] out of bounds and calling what is
\* read: a crash, a call of any stored functor, or a return with any status
\* and the config untouched.
OutOfBoundsInvoke(steps_, config) ==
    {Crashed(config), Applied(OkStatus(NoReturn), config, <<>>),
     Applied(InternalError, config, <<>>)}
    \cup {Applied(InvokeStep(steps_[i], config).status,
                  InvokeStep(steps_[i], config).config, <<i>>) :
              i \in DOMAIN steps_}

\* steps_.size() >= index: the signed index is converted to the unsigned
\* type of size(), so the comparison is false for every negative index.
SizeAtLeast(steps_, index) == index >= 0 /\ Len(steps_) >= index

\* ExperimentSweeps::ApplyMutationStep: the set of its outcomes.
ApplyMutationStep(steps_, index, base_config) ==
    IF ~(SizeAtLeast(steps_, index) \/ index < 0)
    THEN {Applied(InternalError, base_config, <<>>)}
    ELSE IF index = 0 THEN {Applied(OkStatus(NoReturn), base_config, <<>>)}
    ELSE IF index - 1 \in 0..(Len(steps_) - 1)
    THEN {Applied(InvokeStep(steps_[index], base_config).status,
                  InvokeStep(steps_[index], base_config).config, <<index>>)}
    ELSE OutOfBoundsInvoke(steps_, base_config)

\* ExperimentSweeps::GetStepCount
GetStepCount(steps_) == Len(steps_) + 1

\* ExperimentSweeps::AddNewStep
AddNewStep(steps_, step) == Append(steps_, step)

\* The outcome of a call on an Experiment: the experiment after it and the
\* status returned.
ExperimentReturns(e, status) == [experiment |-> e, ret |-> status]

\* Experiment::GetConfigForStep with the mutation applied to config_ itself
\* instead of a copy.
GetConfigForStepInPlace(e, step) ==
    IF ~(step >= 0 /\ step < GetStepCount(e.sweeps_)) THEN {ExperimentReturns(e, InternalError)}
    ELSE {IF applied.status.code # "kOk"
          THEN ExperimentReturns([e EXCEPT !.config_ = applied.config], InternalError)
          ELSE ExperimentReturns([e EXCEPT !.config_ = applied.config],
                                 OkStatus(applied.config)) :
              applied \in ApplyMutationStep(e.sweeps_, step, e.config_)}

\* Experiment::GetConfigForStep: the set of its outcomes.
GetConfigForStep(e, step) ==
    IF ~(step >= 0 /\ step < GetStepCount(e.sweeps_)) THEN {ExperimentReturns(e, InternalError)}
    ELSE LET config == e.config_ IN
         {IF applied.status.code # "kOk" THEN ExperimentReturns(e, InternalError)
          ELSE ExperimentReturns(e, OkStatus(applied.config)) :
              applied \in ApplyMutationStep(e.sweeps_, step, config)}

\* ExperimentRunner::RunExperiment: the metrics of a simulation of config.
RunExperiment(config) == OkStatus([metrics_of |-> config])

\* Experiment::RunStep
RunStep(e, step) ==
    IF ~(step >= 0 /\ step < GetStepCount(e.sweeps_)) THEN {ExperimentReturns(e, InternalError)}
    ELSE {IF got.ret.code # "kOk" THEN got
          ELSE ExperimentReturns(got.experiment, RunExperiment(got.ret.value)) :
              got \in GetConfigForStep(e, step)}

\* The step numbers and indices calls are made with.
StepIndices == -2..(MaxSteps + 1)

\* The builder adds a step to the sweeps of the experiment.
AddNewStepCall ==
    /\ ~fatal
    /\ Len(experiment.sweeps_) < MaxSteps
    /\ \E step \in SweepSteps :
        /\ experiment' = [experiment EXCEPT !.sweeps_ = AddNewStep(@, step)]
        /\ out' = Call("AddNewStep", nullptr, <<step>>, NoReturn)
        /\ history' = Append(history, out')
        /\ UNCHANGED <<file, fatal, block, interval_set>>

ExperimentCall(call, effect) ==
    /\ ~fatal
    /\ experiment' = effect.experiment
    /\ out' = [call EXCEPT !.ret = effect.ret]
    /\ UNCHANGED <<file, fatal, history, block, interval_set>>

GetConfigForStepCall ==
    \E step \in StepIndices :
        \E effect \in GetConfigForStep(experiment, step) :
            ExperimentCall(Call("GetConfigForStep", nullptr, <<step>>, NoReturn),
                           effect)

RunStepCall ==
    \E step \in StepIndices :
        \E effect \in RunStep(experiment, step) :
            ExperimentCall(Call("RunStep", nullptr, <<step>>, NoReturn), effect)

GetStepCountCall ==
    ExperimentCall(Call("GetStepCount", nullptr, <<>>, NoReturn),
                   ExperimentReturns(experiment,
                                     GetStepCount(experiment.sweeps_)))

\* sweeps.ApplyMutationStep(index, config) on a config of the caller's.
ApplyMutationStepCall ==
    /\ ~fatal
    /\ \E index \in StepIndices, config \in ExperimentConfigs :
        \E applied \in ApplyMutationStep(experiment.sweeps_, index, config) :
            /\ fatal' = applied.crashed
            /\ out' = Call("ApplyMutationStep", nullptr, <<index, config>>,
                           [status |-> applied.status, config |-> applied.config,
                            invoked |-> applied.invoked])
            /\ UNCHANGED <<file, history, block, interval_set, experiment>>

\* An experiment of any base config and no sweep step.
InitExperiment ==
    /\ file = <<>>
    /\ history = <<>>
    /\ fatal = FALSE
    /\ out = Call("", nullptr, <<>>, NoReturn)
    /\ block = NoObject
    /\ interval_set = NoObject
    /\ experiment \in [config_ : ExperimentConfigs, sweeps_ : {<<>>}]

NextExperiment ==
    \/ AddNewStepCall \/ GetConfigForStepCall \/ RunStepCall
    \/ GetStepCountCall \/ ApplyMutationStepCall

SpecExperiment == InitExperiment /\ [][NextExperiment]_vars

\* ------------------------------------------------------------------------
\* Block
\* ------------------------------------------------------------------------

\* absl::flat_hash_map as a function on its keys.
EmptyMap == [key \in {} |-> nullptr]

MapContains(map, key) == key \in DOMAIN map

Put(map, key, value) ==
    [k \in DOMAIN map \cup {key} |-> IF k = key THEN value ELSE map[k]]

Erase(map, key) == [k \in DOMAIN map \ {key} |-> map[k]]

\* vector.erase(std::find(vector.begin(), vector.end(), element)) for an
\* element the vector holds once.
EraseElement(vector, element) == SelectSeq(vector, LAMBDA e : e # element)

IsElement(vector, element) == \E i \in DOMAIN vector : vector[i] = element

\* absl::optional<ClockPort>
NoClockPort == [has_value |-> FALSE, name |-> ""]

ClockPort(name) == [has_value |-> TRUE, name |-> name]

\* A Block with no node, port or register. nodes holds every node ever added
\* (a Node* is a position in it, live tells whether it was removed), names the
\* names the uniquer has given out, register_objects every Register ever
\* made (a Register* is a position in it).
NewBlock ==
    [nodes |-> <<>>, names |-> {},
     ports_by_name_ |-> EmptyMap, ports_ |-> <<>>,
     input_ports_ |-> <<>>, output_ports_ |-> <<>>,
     clock_port_ |-> NoClockPort,
     register_objects |-> <<>>,
     registers_ |-> EmptyMap, register_vec_ |-> <<>>,
     register_reads_ |-> EmptyMap, register_writes_ |-> EmptyMap]

\* The Port variant.
ClockPortPtr == [holds |-> "ClockPort*", node |-> nullptr]

InputPortPtr(node) == [holds |-> "InputPort*", node |-> node]

OutputPortPtr(node) == [holds |-> "OutputPort*", node |-> node]

LiveNodes(b) == {n \in DOMAIN b.nodes : b.nodes[n].live}

IsPortNode(b, n) == b.nodes[n].op \in {"InputPort", "OutputPort"}

\* Block::PortName
PortName(b, port) ==
    IF port.holds = "ClockPort*" THEN b.clock_port_.name
    ELSE IF port.holds = "InputPort*" THEN b.nodes[port.node].name_
    ELSE b.nodes[port.node].name_

\* The outcome of a call on a Block: the block after it, the status or value
\* returned, and whether an XLS_CHECK failed.
BlockReturns(b, ret) == [block |-> b, ret |-> ret, fatal |-> FALSE]

BlockAborts(b) == [block |-> b, ret |-> CheckFailure, fatal |-> TRUE]

\* NameUniquer: the name itself when it is free, else the first free name
\* made by appending a number.
RECURSIVE FreshName(_, _, _)
FreshName(names, name, k) ==
    IF name \o "__" \o DecimalString(k) \notin names
    THEN name \o "__" \o DecimalString(k)
    ELSE FreshName(names, name, k + 1)

UniquifyNodeName(names, name) ==
    IF name \notin names THEN name ELSE FreshName(names, name, 1)

\* FunctionBase::AddNodeInternal: the node, named by the uniquer, joins the
\* nodes of the block.
FunctionBaseAddNodeInternal(b, op, name, register) ==
    LET unique == UniquifyNodeName(b.names, name) IN
    [b EXCEPT !.nodes = Append(@, [op |-> op, name_ |-> unique,
                                   register |-> register, live |-> TRUE]),
              !.names = @ \cup {unique}]

\* FunctionBase::RemoveNode of a node without users.
FunctionBaseRemoveNode(b, n) == [b EXCEPT !.nodes[n].live = FALSE]

\* AddToMapOfNodeVectors: the map after the call, or an error.
AddToMapOfNodeVectors(key, node, map) ==
    IF ~MapContains(map, key) THEN InternalError
    ELSE OkStatus([map EXCEPT ![key] = Append(@, node)])

\* RemoveFromMapOfNodeVectors: the map after the call, or an error.
RemoveFromMapOfNodeVectors(key, node, map) ==
    IF ~MapContains(map, key) THEN InternalError
    ELSE IF ~IsElement(map[key], node) THEN InternalError
    ELSE OkStatus([map EXCEPT ![key] = EraseElement(@, node)])

\* Block::AddNodeInternal
BlockAddNodeInternal(b, op, name, register) ==
    LET c == FunctionBaseAddNodeInternal(b, op, name, register)
        ptr == Len(c.nodes)
    IN  IF op = "RegisterRead"
        THEN LET added == AddToMapOfNodeVectors(register, ptr, c.register_reads_) IN
             IF added.code # "kOk" THEN BlockAborts(c)
             ELSE BlockReturns([c EXCEPT !.register_reads_ = added.value], ptr)
        ELSE IF op = "RegisterWrite"
        THEN LET added == AddToMapOfNodeVectors(register, ptr, c.register_writes_) IN
             IF added.code # "kOk" THEN BlockAborts(c)
             ELSE BlockReturns([c EXCEPT !.register_writes_ = added.value], ptr)
        ELSE BlockReturns(c, ptr)

\* Block::SetPortNameExactly
SetPortNameExactly(b, name, node) ==
    IF ~IsPortNode(b, node) THEN BlockReturns(b, InternalError)
    ELSE IF b.nodes[node].name_ = name THEN BlockReturns(b, OkStatus(NoReturn))
    ELSE LET named == {n \in LiveNodes(b) : b.nodes[n].name_ = name} IN
         IF named # {}
         THEN LET n == CHOOSE n \in named : \A m \in named : n <= m IN
              IF IsPortNode(b, n) THEN BlockReturns(b, InvalidArgumentError)
              ELSE LET unique == UniquifyNodeName(b.names, name) IN
                   IF unique = name
                   THEN BlockReturns([b EXCEPT !.nodes[n].name_ = unique,
                                               !.names = @ \cup {unique}],
                                     InternalError)
                   ELSE BlockReturns([b EXCEPT !.nodes[n].name_ = unique,
                                               !.nodes[node].name_ = name,
                                               !.names = @ \cup {unique}],
                                     OkStatus(NoReturn))
         ELSE BlockReturns([b EXCEPT !.nodes[node].name_ = name,
                                     !.names = @ \cup {UniquifyNodeName(@, name)}],
                           OkStatus(NoReturn))

\* The part AddInputPort and AddOutputPort share: the node is added and
\* given exactly the name asked for.
AddPortNode(b, op, name) ==
    LET added == BlockAddNodeInternal(b, op, name, nullptr)
        port == added.ret
    IN  IF name # added.block.nodes[port].name_
        THEN LET named == SetPortNameExactly(added.block, name, port) IN
             IF named.ret.code # "kOk" THEN named
             ELSE BlockReturns(named.block, OkStatus(port))
        ELSE BlockReturns(added.block, OkStatus(port))

\* Block::AddInputPort
AddInputPort(b, name) ==
    IF MapContains(b.ports_by_name_, name) THEN BlockReturns(b, InvalidArgumentError)
    ELSE LET added == AddPortNode(b, "InputPort", name) IN
         IF added.ret.code # "kOk" THEN added
         ELSE LET port == added.ret.value IN
              BlockReturns([added.block EXCEPT
                                !.ports_by_name_ = Put(@, name, port),
                                !.ports_ = Append(@, InputPortPtr(port)),
                                !.input_ports_ = Append(@, port)],
                           OkStatus(port))

\* Block::AddOutputPort
AddOutputPort(b, name) ==
    IF MapContains(b.ports_by_name_, name) THEN BlockReturns(b, InvalidArgumentError)
    ELSE LET added == AddPortNode(b, "OutputPort", name) IN
         IF added.ret.code # "kOk" THEN added
         ELSE LET port == added.ret.value IN
              BlockReturns([added.block EXCEPT
                                !.ports_by_name_ = Put(@, name, port),
                                !.ports_ = Append(@, OutputPortPtr(port)),
                                !.output_ports_ = Append(@, port)],
                           OkStatus(port))

\* Block::AddClockPort
AddClockPort(b, name) ==
    IF b.clock_port_.has_value THEN BlockReturns(b, InternalError)
    ELSE IF MapContains(b.ports_by_name_, name) THEN BlockReturns(b, InternalError)
    ELSE BlockReturns([b EXCEPT !.clock_port_ = ClockPort(name),
                                !.ports_ = Append(@, ClockPortPtr)],
                      OkStatus(NoReturn))

\* Block::RemoveNode
RemoveNode(b, n) ==
    IF b.nodes[n].op = "InputPort"
    THEN IF ~IsElement(b.input_ports_, n) THEN BlockReturns(b, InternalError)
         ELSE LET c == [b EXCEPT !.input_ports_ = EraseElement(@, n),
                                 !.ports_by_name_ = Erase(@, b.nodes[n].name_)]
              IN  IF ~IsElement(c.ports_, InputPortPtr(n))
                  THEN BlockReturns(c, InternalError)
                  ELSE BlockReturns(
                           FunctionBaseRemoveNode(
                               [c EXCEPT !.ports_ = EraseElement(@, InputPortPtr(n))], n),
                           OkStatus(NoReturn))
    ELSE IF b.nodes[n].op = "OutputPort"
    THEN IF ~IsElement(b.output_ports_, n) THEN BlockReturns(b, InternalError)
         ELSE LET c == [b EXCEPT !.output_ports_ = EraseElement(@, n),
                                 !.ports_by_name_ = Erase(@, b.nodes[n].name_)]
              IN  IF ~IsElement(c.ports_, OutputPortPtr(n))
                  THEN BlockReturns(c, InternalError)
                  ELSE BlockReturns(
                           FunctionBaseRemoveNode(
                               [c EXCEPT !.ports_ = EraseElement(@, OutputPortPtr(n))], n),
                           OkStatus(NoReturn))
    ELSE IF b.nodes[n].op = "RegisterRead"
    THEN LET removed == RemoveFromMapOfNodeVectors(b.nodes[n].register, n,
                                                   b.register_reads_) IN
         IF removed.code # "kOk" THEN BlockReturns(b, removed)
         ELSE BlockReturns(
                  FunctionBaseRemoveNode(
                      [b EXCEPT !.register_reads_ = removed.value], n),
                  OkStatus(NoReturn))
    ELSE IF b.nodes[n].op = "RegisterWrite"
    THEN LET removed == RemoveFromMapOfNodeVectors(b.nodes[n].register, n,
                                                   b.register_writes_) IN
         IF removed.code # "kOk" THEN BlockReturns(b, removed)
         ELSE BlockReturns(
                  FunctionBaseRemoveNode(
                      [b EXCEPT !.register_writes_ = removed.value], n),
                  OkStatus(NoReturn))
    ELSE BlockReturns(FunctionBaseRemoveNode(b, n), OkStatus(NoReturn))

\* A Register object.
NewRegister(name, type, reset) ==
    [name |-> name, type |-> type, reset |-> reset, destroyed |-> FALSE]

\* absl::optional<Reset>: no reset, or one whose reset value is of a type.
NoResetValue == [has_value |-> FALSE, reset_value |-> [type |-> ""]]

ResetTo(value) == [has_value |-> TRUE, reset_value |-> value]

\* Package::GetTypeForValue
GetTypeForValue(value) == value.type

\* Block::IsOwned
IsOwned(b, reg) ==
    /\ MapContains(b.registers_, b.register_objects[reg].name)
    /\ b.registers_[b.register_objects[reg].name] = reg

\* Block::AddRegister
BlockAddRegister(b, name, type, reset) ==
    IF MapContains(b.registers_, name) THEN BlockReturns(b, InvalidArgumentError)
    ELSE IF reset.has_value /\ type # GetTypeForValue(reset.reset_value)
    THEN BlockReturns(b, InvalidArgumentError)
    ELSE LET objects == Append(b.register_objects, NewRegister(name, type, reset))
             reg == Len(objects)
         IN  BlockReturns([b EXCEPT !.register_objects = objects,
                                    !.registers_ = Put(@, name, reg),
                                    !.register_vec_ = Append(@, reg),
                                    !.register_reads_ = Put(@, reg, <<>>),
                                    !.register_writes_ = Put(@, reg, <<>>)],
                          OkStatus(reg))

\* Block::RemoveRegister leaving the register in register_vec_.
BlockRemoveRegisterLeavingVector(b, reg) ==
    IF ~IsOwned(b, reg) THEN BlockReturns(b, InvalidArgumentError)
    ELSE IF b.register_reads_[reg] # <<>> \/ b.register_writes_[reg] # <<>>
    THEN BlockReturns(b, InvalidArgumentError)
    ELSE BlockReturns([b EXCEPT !.register_reads_ = Erase(@, reg),
                                !.register_writes_ = Erase(@, reg),
                                !.registers_ = Erase(@, b.register_objects[reg].name),
                                !.register_objects[reg].destroyed = TRUE],
                      OkStatus(NoReturn))

BlockRemoveRegister(b, reg) ==
    IF ~IsOwned(b, reg) THEN BlockReturns(b, InvalidArgumentError)
    ELSE IF b.register_reads_[reg] # <<>> \/ b.register_writes_[reg] # <<>>
    THEN BlockReturns(b, InvalidArgumentError)
    ELSE LET c == [b EXCEPT !.register_reads_ = Erase(@, reg),
                            !.register_writes_ = Erase(@, reg)]
         IN  IF ~IsElement(c.register_vec_, reg) THEN BlockReturns(c, InternalError)
             ELSE BlockReturns(
                      [c EXCEPT !.register_vec_ = EraseElement(@, reg),
                                !.registers_ = Erase(@, b.register_objects[reg].name),
                                !.register_objects[reg].destroyed = TRUE],
                      OkStatus(NoReturn))

\* The map port_order of ReorderPorts: each name to its last position.
PortOrder(port_names) ==
    [name \in {port_names[i] : i \in DOMAIN port_names} |->
        CHOOSE i \in DOMAIN port_names :
            /\ port_names[i] = name
            /\ \A j \in DOMAIN port_names : port_names[j] = name => j <= i]

\* The results std::sort may leave: the arrangements of ports_ in which no
\* port comes before one of a smaller position in port_order (ports of equal
\* positions in any order).
SortedPorts(b, port_order) ==
    LET n == Len(b.ports_)
        key(i) == port_order[PortName(b, b.ports_[i])]
        orders == {p \in [1..n -> 1..n] : \A i, j \in 1..n : i # j => p[i] # p[j]}
    IN  {[i \in 1..n |-> b.ports_[p[i]]] :
            p \in {q \in orders :
                      \A i, j \in 1..n : i < j => key(q[i]) <= key(q[j])}}

\* Block::ReorderPorts: the set of its outcomes.
ReorderPorts(b, port_names) ==
    LET port_order == PortOrder(port_names) IN
    IF Cardinality(DOMAIN port_order) # Len(port_names)
    THEN {BlockReturns(b, InternalError)}
    ELSE IF \E i \in DOMAIN b.ports_ :
                ~MapContains(port_order, PortName(b, b.ports_[i]))
    THEN {BlockReturns(b, InternalError)}
    ELSE IF Cardinality(DOMAIN port_order) # Len(b.ports_)
    THEN {BlockReturns(b, InternalError)}
    ELSE {BlockReturns([b EXCEPT !.ports_ = sorted], OkStatus(NoReturn)) :
             sorted \in SortedPorts(b, port_order)}

\* The names ports and nodes are given.
BlockNames == {"a", "clk"}

BlockCall(call, effect) ==
    /\ ~fatal
    /\ block' = effect.block
    /\ fatal' = effect.fatal
    /\ out' = [call EXCEPT !.ret = effect.ret]
    /\ UNCHANGED <<vast_vars, interval_set, experiment>>

AddInputPortCall ==
    /\ Len(block.nodes) < MaxBlockNodes
    /\ \E name \in BlockNames :
           BlockCall(Call("AddInputPort", nullptr, <<name>>, NoReturn),
                     AddInputPort(block, name))

AddOutputPortCall ==
    /\ Len(block.nodes) < MaxBlockNodes
    /\ \E name \in BlockNames :
           BlockCall(Call("AddOutputPort", nullptr, <<name>>, NoReturn),
                     AddOutputPort(block, name))

AddClockPortCall ==
    \E name \in BlockNames :
        BlockCall(Call("AddClockPort", nullptr, <<name>>, NoReturn),
                  AddClockPort(block, name))

\* AddNode of a node that is neither a port nor a register operation.
AddLiteralCall ==
    /\ Len(block.nodes) < MaxBlockNodes
    /\ \E name \in BlockNames :
           LET added == BlockAddNodeInternal(block, "Literal", name, nullptr) IN
           BlockCall(Call("AddNode", nullptr, <<"Literal", name>>, NoReturn),
                     BlockReturns(added.block, OkStatus(added.ret)))

RemoveNodeCall ==
    \E n \in LiveNodes(block) :
        BlockCall(Call("RemoveNode", nullptr, <<n>>, NoReturn),
                  RemoveNode(block, n))

ReorderPortsCall ==
    \E port_names \in SeqsUpTo(BlockNames, MaxPortNames) :
        \E effect \in ReorderPorts(block, port_names) :
            BlockCall(Call("ReorderPorts", nullptr, <<port_names>>, NoReturn),
                      effect)

\* An empty block.
InitBlock ==
    /\ file = <<>>
    /\ history = <<>>
    /\ fatal = FALSE
    /\ out = Call("", nullptr, <<>>, NoReturn)
    /\ block = NewBlock
    /\ interval_set = NoObject
    /\ experiment = NoObject

NextBlockPorts ==
    \/ AddInputPortCall \/ AddOutputPortCall \/ AddClockPortCall
    \/ AddLiteralCall \/ RemoveNodeCall \/ ReorderPortsCall

SpecBlockPorts == InitBlock /\ [][NextBlockPorts]_vars

\* The names, types and resets registers are added with.
RegisterNames == {"r", "s"}

RegisterTypes == {"bits[1]"}

Resets == {NoResetValue, ResetTo([type |-> "bits[1]"]), ResetTo([type |-> "bits[8]"])}

\* The Register objects that have not been destroyed.
Registers(b) ==
    {reg \in DOMAIN b.register_objects : ~b.register_objects[reg].destroyed}

BlockAddRegisterCall ==
    /\ Len(block.register_objects) < MaxBlockRegisters + 1
    /\ \E name \in RegisterNames, type \in RegisterTypes, reset \in Resets :
           BlockCall(Call("AddRegister", nullptr, <<name, type, reset>>, NoReturn),
                     BlockAddRegister(block, name, type, reset))

BlockRemoveRegisterCall ==
    \E reg \in Registers(block) :
        BlockCall(Call("RemoveRegister", nullptr, <<reg>>, NoReturn),
                  BlockRemoveRegister(block, reg))

\* AddNode of a RegisterRead of a register.
AddRegisterReadCall ==
    /\ Len(block.nodes) < MaxBlockNodes
    /\ \E reg \in Registers(block) :
           BlockCall(Call("AddNode", nullptr, <<"RegisterRead", reg>>, NoReturn),
                     BlockAddNodeInternal(block, "RegisterRead", "rd", reg))

\* AddNode of a RegisterWrite of a register.
AddRegisterWriteCall ==
    /\ Len(block.nodes) < MaxBlockNodes
    /\ \E reg \in Registers(block) :
           BlockCall(Call("AddNode", nullptr, <<"RegisterWrite", reg>>, NoReturn),
                     BlockAddNodeInternal(block, "RegisterWrite", "wr", reg))

\* An empty block, and a register r of another block.
InitBlockRegisters ==
    /\ file = <<>>
    /\ history = <<>>
    /\ fatal = FALSE
    /\ out = Call("", nullptr, <<>>, NoReturn)
    /\ block = [NewBlock EXCEPT
                    !.register_objects = <<NewRegister("r", "bits[1]", NoResetValue)>>]
    /\ interval_set = NoObject
    /\ experiment = NoObject

NextBlockRegisters ==
    \/ BlockAddRegisterCall \/ BlockRemoveRegisterCall
    \/ AddRegisterReadCall \/ AddRegisterWriteCall \/ RemoveNodeCall

SpecBlockRegisters == InitBlockRegisters /\ [][NextBlockRegisters]_vars

Init ==
    \/ InitExpr \/ InitSelect \/ InitFlop \/ InitCond
    \/ InitLiteral \/ InitDecl \/ InitBitCount
    \/ InitModule \/ InitPort \/ InitFunction \/ InitWidth
    \/ InitSanitize
    \/ InitProto
    \/ InitIntervalSet
    \/ InitExperiment
    \/ InitFormat
    \/ InitBlock
    \/ InitBlockRegisters

Next ==
    \/ NextExpr \/ NextTernary \/ NextSelect \/ NextPartSelect
    \/ NextFlop \/ NextCond
    \/ NextLiteral \/ NextDecl \/ NextBitCount
    \/ NextModule \/ NextSection \/ NextPort \/ NextFunction \/ NextWidth
    \/ NextSanitize
    \/ NextProto
    \/ NextIntervalSet
    \/ NextExperiment
    \/ NextFormat
    \/ NextBlockPorts
    \/ NextBlockRegisters

Spec == Init /\ [][Next]_vars

\* ------------------------------------------------------------------------
\* Properties
\* ------------------------------------------------------------------------

\* s, in parentheses iff wrap.
Wrapped(wrap, s) == IF wrap THEN "(" \o s \o ")" ELSE s

\* The call that just happened is node->Emit() on a node of one of kinds.
Emitted(kinds) ==
    /\ out.op = "Emit"
    /\ out.this \in Nodes(file)
    /\ file[out.this].kind \in kinds

\* n is a literal whose value is zero.
IsZeroLiteral(f, n) == IsLiteral(f, n) /\ f[n].bits.value = 0

\* n is a subtraction of two references.
IsRefMinusRef(f, n) ==
    /\ IsKind(f, n, "BinaryInfix")
    /\ f[n].op = "-"
    /\ IsLogicRef(f, f[n].lhs)
    /\ IsLogicRef(f, f[n].rhs)

\* C1: BinaryInfix::Emit puts the left operand in parentheses iff its
\* precedence is lower than the operator's and the right operand iff its
\* precedence is lower or equal; x - (y - z) keeps its parentheses and
\* (x - y) - z is emitted without any.
C1_BinaryInfixParens ==
    Emitted({"BinaryInfix"}) =>
        LET b == file[out.this]
            p_op == b.precedence
            p_l == file[b.lhs].precedence
            p_r == file[b.rhs].precedence
            l == Emit(file, b.lhs)
            r == Emit(file, b.rhs)
        IN  /\ ~fatal
            /\ out.ret = Wrapped(p_l < p_op, l) \o " " \o b.op \o " "
                             \o Wrapped(p_r <= p_op, r)
            /\ CountChar(out.ret, "(") =
                   CountChar(l, "(") + CountChar(r, "(")
                       + (IF p_l < p_op THEN 1 ELSE 0)
                       + (IF p_r <= p_op THEN 1 ELSE 0)
            /\ (b.op = "-" /\ IsLogicRef(file, b.lhs) /\ IsRefMinusRef(file, b.rhs))
                   => out.ret = l \o " - (" \o r \o ")"
            /\ (b.op = "-" /\ IsRefMinusRef(file, b.lhs) /\ IsLogicRef(file, b.rhs))
                   => /\ out.ret = l \o " - " \o r
                      /\ CountChar(out.ret, "(") = 0

\* A subtraction whose right operand is a subtraction has been emitted.
C1_Witness ==
    /\ Emitted({"BinaryInfix"})
    /\ out.ret = "a - (b - a)"

OperatorChars == {"-", "!", "*"}

\* Two operator characters stand side by side in s.
HasAdjacentOperators(s) ==
    \E i \in 1..(Len(s) - 1) :
        /\ SubSeq(s, i, i) \in OperatorChars
        /\ SubSeq(s, i + 1, i + 1) \in OperatorChars

\* C2: Unary::Emit puts its operand in parentheses iff the operand's
\* precedence is lower than the unary's or the operand is itself a Unary, so
\* however deep unary operators nest, no emitted text has two operator tokens
\* directly adjacent.
C2_UnaryParens ==
    /\ Emitted({"Unary"}) =>
        LET u == file[out.this]
            arg == Emit(file, u.arg)
        IN  /\ ~fatal
            /\ out.ret =
                   u.op \o Wrapped(file[u.arg].precedence < u.precedence
                                       \/ file[u.arg].kind = "Unary", arg)
            /\ file[u.arg].kind = "Unary" =>
                   SubSeq(out.ret, Len(u.op) + 1, Len(u.op) + 1) = "("
    /\ Emitted(ExpressionKinds) => ~HasAdjacentOperators(out.ret)

\* A unary applied to a unary has been emitted.
C2_Witness ==
    /\ Emitted({"Unary"})
    /\ out.ret = "-(-a)"

\* C3: Ternary::Emit puts each of test, consequent and alternate in
\* parentheses exactly when its precedence is at most the ternary's own, so a
\* ternary nested in any position of a ternary is always in parentheses.
C3_TernaryParens ==
    Emitted({"Ternary"}) =>
        LET t == file[out.this]
            W(e) == Wrapped(file[e].precedence <= t.precedence, Emit(file, e))
            Nested(e) == "(" \o Emit(file, e) \o ")"
            Part(e) == IF file[e].kind = "Ternary" THEN Nested(e) ELSE W(e)
        IN  /\ ~fatal
            /\ out.ret = W(t.test) \o " ? " \o W(t.consequent) \o " : "
                             \o W(t.alternate)
            /\ out.ret = Part(t.test) \o " ? " \o Part(t.consequent) \o " : "
                             \o Part(t.alternate)

\* A ternary whose alternate is a ternary and whose test is not has been
\* emitted.
C3_Witness ==
    /\ Emitted({"Ternary"})
    /\ out.ret = "b ? a : (a ? b : a)"

\* The subject of a selection is scalar: a reference to a definition whose
\* data type declares no width.
ScalarSubject(f, subject) ==
    /\ IsLogicRef(f, subject)
    /\ f[f[subject].def].data_type.width = nullptr

\* The bound expressions of a selection node.
Bounds(node) ==
    CASE node.kind = "Slice" -> <<node.hi, node.lo>>
      [] node.kind = "Index" -> <<node.index>>
      [] node.kind = "PartSelect" -> <<node.start, node.width>>

AllBoundsZero(f, node) ==
    \A i \in DOMAIN Bounds(node) : IsZeroLiteral(f, Bounds(node)[i])

\* The call that just happened aborted and returned nothing.
Aborted == fatal /\ out.ret = NoReturn

\* C4: Emit of a Slice or Index with a scalar subject returns exactly the
\* subject's text, without brackets, if every bound is a literal 0, and
\* aborts returning no text if any bound is anything else; with a non-scalar
\* subject the text is subject[hi:lo] or subject[index] (and the call aborts
\* where emitting a part of it does).
C4_ScalarSliceIndex ==
    Emitted({"Slice", "Index"}) =>
        LET node == file[out.this]
            subject == Emit(file, node.subject)
            bounds == [i \in DOMAIN Bounds(node) |-> Emit(file, Bounds(node)[i])]
        IN  IF ScalarSubject(file, node.subject) THEN
                IF AllBoundsZero(file, node)
                THEN /\ ~fatal
                     /\ out.ret = subject
                     /\ out.ret = file[file[node.subject].def].name
                     /\ ~Contains(out.ret, "[")
                ELSE Aborted
            ELSE IF subject = kFatal \/ \E i \in DOMAIN bounds : bounds[i] = kFatal
                 THEN Aborted
            ELSE /\ ~fatal
                 /\ node.kind = "Slice" =>
                        out.ret = subject \o "[" \o bounds[1] \o ":" \o bounds[2] \o "]"
                 /\ node.kind = "Index" =>
                        out.ret = subject \o "[" \o bounds[1] \o "]"

\* Emitting a slice of a scalar with hi the literal 0 and lo something else
\* has aborted.
C4_Witness ==
    /\ Emitted({"Slice"})
    /\ ScalarSubject(file, file[out.this].subject)
    /\ IsZeroLiteral(file, file[out.this].hi)
    /\ ~IsZeroLiteral(file, file[out.this].lo)
    /\ Aborted

\* C5: the scalar-subject rule covers part-select too: emitting a PartSelect
\* whose subject is scalar never produces bracketed text, it emits the bare
\* subject (bounds literal 0) or aborts.
C5_PartSelectScalarRule ==
    (Emitted({"PartSelect"}) /\ ScalarSubject(file, file[out.this].subject)) =>
        /\ ~Contains(out.ret, "[")
        /\ IF AllBoundsZero(file, file[out.this])
           THEN ~fatal /\ out.ret = Emit(file, file[out.this].subject)
           ELSE Aborted

\* The non-blocking assignments of the arena.
NonblockingAssignments(f) == NodesOfKinds(f, {"NonblockingAssignment"})

\* block holds exactly the assignments lhs <= rhs listed in pairs, in order.
HoldsAssignments(f, statement_block, pairs) ==
    LET statements == f[statement_block].statements IN
    /\ Len(statements) = Len(pairs)
    /\ \A i \in DOMAIN pairs :
        /\ IsKind(f, statements[i], "NonblockingAssignment")
        /\ f[statements[i]].lhs = pairs[i][1]
        /\ f[statements[i]].rhs = pairs[i][2]
    /\ \A i, j \in DOMAIN statements : statements[i] = statements[j] => i = j

\* The AddRegister calls on flop that returned, in call order.
RegisterCalls(flop) ==
    SelectSeq(history, LAMBDA c : c.op = "AddRegister" /\ c.this = flop)

NextValuePairs(calls) == [i \in DOMAIN calls |-> <<calls[i].args[1], calls[i].args[2]>>]

ResetValuePairs(calls) ==
    LET with_reset == SelectSeq(calls, LAMBDA c : c.args[3] # nullptr) IN
    [i \in DOMAIN with_reset |-> <<with_reset[i].args[1], with_reset[i].args[3]>>]

\* C6: the sensitivity list AlwaysFlop::Emit writes starts with posedge
\* <clock> and has a second term iff a reset is present and asynchronous:
\* negedge <reset> if active-low, posedge <reset> otherwise; with a
\* synchronous reset or none it is exactly posedge <clock>.
C6_SensitivityList ==
    Emitted({"AlwaysFlop"}) =>
        LET a == file[out.this]
            clock == Emit(file, a.clk)
            second == a.rst.has_value /\ a.rst.asynchronous
            list == IF ~second THEN "posedge " \o clock
                    ELSE IF a.rst.active_low
                    THEN "posedge " \o clock \o " or negedge "
                             \o Emit(file, a.rst.signal)
                    ELSE "posedge " \o clock \o " or posedge "
                             \o Emit(file, a.rst.signal)
        IN  /\ ~fatal
            /\ out.ret = "always @ (" \o list \o ") " \o Emit(file, a.top_block)
            /\ Contains(out.ret, " or ") <=> second
            /\ Contains(out.ret, "negedge") <=> (second /\ a.rst.active_low)

\* A flop with an active-low asynchronous reset and one with a synchronous
\* reset differ only in the list; the former has been emitted after a
\* registration.
C6_Witness ==
    /\ Emitted({"AlwaysFlop"})
    /\ history # <<>>
    /\ Contains(out.ret, "always @ (posedge clk or negedge rst) begin")

\* C7: for an AlwaysFlop built with a reset, after any AddRegister calls the
\* assignment block (the conditional's unconditional alternate) holds one
\* reg <= next per call in call order, the reset block (the conditional's
\* consequent) one reg <= reset_value per call that gave a reset value, in
\* call order, and the conditional's test is the reset signal, inverted iff
\* the reset is active-low.
C7_ResetFlopBlocks ==
    \A flop \in Flops(file) :
        file[flop].rst.has_value =>
            LET a == file[flop]
                calls == RegisterCalls(flop)
                top == file[a.top_block].statements
                conditional == file[top[1]]
            IN  /\ Len(top) = 1
                /\ conditional.kind = "Conditional"
                /\ conditional.consequent = a.reset_block
                /\ Len(conditional.alternates) = 1
                /\ conditional.alternates[1].first = nullptr
                /\ conditional.alternates[1].second = a.assignment_block
                /\ a.assignment_block # a.reset_block
                /\ HoldsAssignments(file, a.assignment_block, NextValuePairs(calls))
                /\ HoldsAssignments(file, a.reset_block, ResetValuePairs(calls))
                /\ Emit(file, conditional.condition) =
                       (IF a.rst.active_low THEN "!" ELSE "")
                           \o Emit(file, a.rst.signal)
                /\ IF a.rst.active_low
                   THEN /\ IsUnary(file, conditional.condition)
                        /\ file[conditional.condition].arg = a.rst.signal
                   ELSE conditional.condition = a.rst.signal

\* An active-low reset flop after registrations of different registers, with
\* and without a reset value.
C7_Witness ==
    \E flop \in Flops(file) :
        LET calls == RegisterCalls(flop) IN
        /\ file[flop].rst.has_value
        /\ file[flop].rst.active_low
        /\ Len(calls) >= 3
        /\ calls[1].args[3] = nullptr
        /\ calls[2].args[3] # nullptr
        /\ calls[1].args[1] # calls[2].args[1]

\* C8: for an AlwaysFlop built without a reset, after n AddRegister calls
\* with no reset value the single top-level block holds exactly the n
\* assignments reg <= next in call order, directly and under no conditional.
C8_NoResetFlopBlock ==
    \A flop \in Flops(file) :
        ~file[flop].rst.has_value =>
            LET a == file[flop]
                calls == RegisterCalls(flop)
            IN  /\ a.assignment_block = a.top_block
                /\ a.reset_block = nullptr
                /\ HoldsAssignments(file, a.top_block, NextValuePairs(calls))
                /\ Conditionals(file) = {}
                /\ Cardinality(NodesOfKinds(file, {"StatementBlock"})) = 1
                /\ Cardinality(NonblockingAssignments(file)) = Len(calls)

\* A flop without reset after two registrations of different registers.
C8_Witness ==
    \E flop \in Flops(file) :
        LET calls == RegisterCalls(flop) IN
        /\ ~file[flop].rst.has_value
        /\ Len(calls) >= 2
        /\ calls[1].args[1] # calls[2].args[1]
        /\ \A i \in DOMAIN calls : calls[i].args[3] = nullptr

\* C9: AddRegister with a non-null reset value on an AlwaysFlop built
\* without a reset aborts, before any assignment for that register (reset
\* or next-value) is appended to any block.
C9_ResetValueWithoutReset ==
    [][(/\ out'.op = "AddRegister"
        /\ ~file[out'.this].rst.has_value
        /\ out'.args[3] # nullptr)
           => (/\ fatal'
               /\ out'.ret = NoReturn
               /\ file' = file
               /\ history' = history)]_vars

\* Such a call has aborted after an earlier registration.
C9_Witness ==
    /\ out.op = "AddRegister"
    /\ ~file[out.this].rst.has_value
    /\ out.args[3] # nullptr
    /\ fatal
    /\ Len(history) >= 1

\* The alternate at position i of conditional c has no condition.
Unconditional(f, c, i) == f[c].alternates[i].first = nullptr

\* The chain of c has been closed by an unconditional alternate.
Closed(f, c) ==
    \E i \in DOMAIN f[c].alternates : Unconditional(f, c, i)

\* Number of positions at which sub occurs in s.
CountSub(s, sub) ==
    Cardinality({i \in 1..(Len(s) - Len(sub) + 1) :
                     SubSeq(s, i, i + Len(sub) - 1) = sub})

EndsWith(s, sub) ==
    Len(s) >= Len(sub) /\ SubSeq(s, Len(s) - Len(sub) + 1, Len(s)) = sub

\* At most one alternate of every conditional has no condition, and it is
\* the last one; the emitted chain has at most one bare else, at its end.
C10_ElseLast ==
    /\ \A c \in Conditionals(file) :
        \A i \in DOMAIN file[c].alternates :
            Unconditional(file, c, i) => i = Len(file[c].alternates)
    /\ Emitted({"Conditional"}) =>
        /\ ~fatal
        /\ CountSub(out.ret, " else begin") =
               (IF Closed(file, out.this) THEN 1 ELSE 0)
        /\ CountSub(out.ret, " else ") = Len(file[out.this].alternates)
        /\ Closed(file, out.this) => EndsWith(out.ret, " else begin end")

\* AddAlternate on a closed chain aborts and adds nothing.
C10_AbortWhenClosed ==
    (out'.op = "AddAlternate" /\ Closed(file, out'.this))
        => (/\ fatal'
            /\ out'.ret = NoReturn
            /\ file' = file
            /\ history' = history)

\* C10: in every state reached by AddAlternate calls at most one alternate
\* has no condition and it is the last; AddAlternate, with or without a
\* condition, on a conditional that has an unconditional alternate aborts
\* and adds nothing.
C10_UnconditionalAlternateLast ==
    [](C10_ElseLast) /\ [][C10_AbortWhenClosed]_vars

\* An AddAlternate with a condition has aborted on a chain of a conditional
\* alternate followed by the unconditional one.
C10_Witness ==
    /\ out.op = "AddAlternate"
    /\ out.args[1] # nullptr
    /\ fatal
    /\ Len(file[out.this].alternates) = 2
    /\ ~Unconditional(file, out.this, 1)
    /\ Unconditional(file, out.this, 2)

\* ------------------------------------------------------------------------
\* Literals
\* ------------------------------------------------------------------------

\* The value a string of decimal digits denotes.
RECURSIVE DecimalValue(_)
DecimalValue(s) ==
    IF s = "" THEN 0
    ELSE LET last == SubSeq(s, Len(s), Len(s))
             d == CHOOSE i \in 0..9 : Digits[i + 1] = last
         IN  10 * DecimalValue(SubSeq(s, 1, Len(s) - 1)) + d

IsDigitOf(c, digits) == \E i \in DOMAIN digits : digits[i] = c

\* s is the decimal numeral of v: digits only, no leading zero, value v.
IsDecimalNumeral(s, v) ==
    /\ Len(s) >= 1
    /\ \A i \in 1..Len(s) : IsDigitOf(SubSeq(s, i, i), Digits)
    /\ Len(s) > 1 => SubSeq(s, 1, 1) # "0"
    /\ DecimalValue(s) = v

EmittedLiteral(formats) ==
    /\ Emitted({"Literal"})
    /\ file[out.this].format \in formats

\* C11: Emit of a literal in default format returns the bare decimal numeral
\* of its value (no width, no radix prefix) when the bit count is at most 32,
\* and aborts without returning text when the bit count exceeds 32.
C11_DefaultFormatLiteral ==
    EmittedLiteral({"kDefault"}) =>
        LET l == file[out.this] IN
        IF l.bits.bit_count <= 32
        THEN ~fatal /\ IsDecimalNumeral(out.ret, l.bits.value)
        ELSE Aborted

C11_Witness ==
    /\ EmittedLiteral({"kDefault"})
    /\ file[out.this].bits.bit_count = 32
    /\ out.ret = "42"

StartsWith(s, sub) == Len(s) >= Len(sub) /\ SubSeq(s, 1, Len(sub)) = sub

\* The radix letter of a format.
RadixLetter(format) ==
    CASE format = "kDecimal" -> "d"
      [] format = "kBinary" -> "b"
      [] format = "kHex" -> "h"

\* <width>'<radix> of a literal.
WidthPrefix(l) ==
    DecimalString(l.bits.bit_count) \o "'" \o RadixLetter(l.format)

\* C12: in each of the decimal, binary and hex formats the emitted text
\* starts with <width>'<radix> when the emit-bit-count flag is true and
\* carries no such prefix when the flag is false.
C12_PrefixFollowsFlag ==
    EmittedLiteral({"kDecimal", "kBinary", "kHex"}) /\ ~fatal =>
        LET l == file[out.this] IN
        IF l.emit_bit_count
        THEN StartsWith(out.ret, WidthPrefix(l))
        ELSE ~Contains(out.ret, "'")

\* The characters of s that are not separators, in order.
RECURSIVE WithoutSeparators(_)
WithoutSeparators(s) ==
    IF s = "" THEN ""
    ELSE (IF SubSeq(s, 1, 1) = "_" THEN "" ELSE SubSeq(s, 1, 1))
         \o WithoutSeparators(SubSeq(s, 2, Len(s)))

\* The value a string of digits of the radix denotes.
RECURSIVE RadixValue(_, _)
RadixValue(s, radix) ==
    IF s = "" THEN 0
    ELSE LET last == SubSeq(s, Len(s), Len(s))
             d == CHOOSE i \in 0..(radix - 1) : HexDigits[i + 1] = last
         IN  radix * RadixValue(SubSeq(s, 1, Len(s) - 1), radix) + d

\* s is count digits of the radix, possibly grouped by separators that
\* stand between two digits, and denotes v.
IsPaddedNumeral(s, radix, count, v) ==
    LET digits == WithoutSeparators(s) IN
    /\ \A i \in 1..Len(s) :
          \/ IsDigitOf(SubSeq(s, i, i), SubSeq(HexDigits, 1, radix))
          \/ /\ SubSeq(s, i, i) = "_"
             /\ 1 < i /\ i < Len(s)
             /\ SubSeq(s, i + 1, i + 1) # "_"
    /\ Len(digits) = count
    /\ RadixValue(digits, radix) = v

\* The text after the prefix of an emitted literal.
DigitsAfterPrefix(l, text) == SubSeq(text, Len(WidthPrefix(l)) + 1, Len(text))

\* Emit of a literal with the flag set is <width>'<r><digits>, the binary
\* digits being bit_count many and the hex digits hex_count many.
CanonicalLiteral(l, text, hex_count) ==
    /\ StartsWith(text, WidthPrefix(l))
    /\ LET digits == DigitsAfterPrefix(l, text) IN
       CASE l.format = "kDecimal" -> IsDecimalNumeral(digits, l.bits.value)
         [] l.format = "kBinary" ->
                IsPaddedNumeral(digits, 2, l.bits.bit_count, l.bits.value)
         [] l.format = "kHex" ->
                IsPaddedNumeral(digits, 16, hex_count, l.bits.value)

EmittedFlaggedLiteral ==
    /\ EmittedLiteral({"kDecimal", "kBinary", "kHex"})
    /\ file[out.this].emit_bit_count

OperandText(f, n) ==
    IF IsLiteral(f, n) THEN DecimalString(f[n].bits.value) ELSE f[f[n].def].name

\* [size] for a size, [first:second] for a pair.
BracketGroup(f, bound) ==
    IF bound.pair
    THEN "[" \o OperandText(f, bound.first) \o ":"
             \o OperandText(f, bound.second) \o "]"
    ELSE "[" \o OperandText(f, bound.first) \o "]"

RECURSIVE BracketGroups(_, _)
BracketGroups(f, bounds) ==
    IF bounds = <<>> THEN ""
    ELSE BracketGroup(f, Head(bounds)) \o BracketGroups(f, Tail(bounds))

\* The text of s after the first occurrence of sub.
After(s, sub) ==
    LET i == CHOOSE i \in 1..(Len(s) - Len(sub) + 1) :
                 /\ SubSeq(s, i, i + Len(sub) - 1) = sub
                 /\ \A j \in 1..(i - 1) : SubSeq(s, j, j + Len(sub) - 1) # sub
    IN  SubSeq(s, i + Len(sub), Len(s))

\* C19: an unpacked-array register declaration with k >= 1 bounds has,
\* directly after its name and before any initializer, exactly the k bracket
\* groups of its bounds in the order supplied, [size] for a size and
\* [first:second] for a pair; with no bound Emit aborts.
C19_UnpackedArrayBounds ==
    Emitted({"UnpackedArrayRegDef"}) =>
        LET d == file[out.this] IN
        IF d.bounds = <<>> THEN Aborted
        ELSE /\ ~fatal
             /\ CountSub(out.ret, " mem") = 1
             /\ After(out.ret, " mem") =
                    BracketGroups(file, d.bounds)
                    \o (IF d.init = nullptr THEN ""
                        ELSE " = " \o OperandText(file, d.init))
                    \o ";"
             /\ CountChar(After(out.ret, " mem"), "[") = Len(d.bounds)

C19_Witness ==
    /\ Emitted({"UnpackedArrayRegDef"})
    /\ out.ret = "reg [3:0] mem[4][0:3] = 0;"

\* C20: UnpackedArrayWireDef::Emit is the base declaration Def::EmitNoSemi of
\* the wire (kind, signed qualifier, width range, packed-dimension ranges,
\* name) followed by the unpacked bounds and a semicolon, for every data
\* type.
C20_WireDefMatchesBaseDeclaration ==
    Emitted({"UnpackedArrayWireDef"}) /\ ~fatal =>
        out.ret = StrCat(<<EmitNoSemi(file, out.this),
                           UnpackedArrayBoundsToString(file, file[out.this].bounds),
                           ";">>)

\* ------------------------------------------------------------------------
\* Bit counts
\* ------------------------------------------------------------------------

Returned(op) == out.op = op /\ out.this \in Nodes(file)

\* The product of the values of the literals dims.
RECURSIVE Product(_, _)
Product(f, dims) ==
    IF dims = <<>> THEN 1 ELSE f[Head(dims)].bits.value * Product(f, Tail(dims))

\* The width and every packed dimension of t is a literal.
AllLiteral(f, t) ==
    /\ t.width # nullptr => IsLiteral(f, t.width)
    /\ \A i \in DOMAIN t.packed_dims : IsLiteral(f, t.packed_dims[i])

\* C16: FlatBitCountAsInt64 returns the width (1 when absent) times every
\* packed dimension when the width and all packed dimensions are literals,
\* and returns a failure result, never aborting, if and only if the width or
\* a packed dimension is not a literal.
C16_FlatBitCount ==
    Returned("FlatBitCountAsInt64") =>
        LET t == file[out.this].data_type IN
        /\ ~fatal
        /\ IF AllLiteral(file, t)
           THEN out.ret =
                    OkStatus((IF t.width = nullptr THEN 1
                              ELSE file[t.width].bits.value)
                             * Product(file, t.packed_dims))
           ELSE out.ret.code = "kFailedPrecondition"

\* ------------------------------------------------------------------------
\* Module ports
\* ------------------------------------------------------------------------

\* The calls of history that added a port, in call order.
PortCalls == SelectSeq(history, LAMBDA c : c.op \in {"AddInput", "AddOutput"})

\* The port entry of a call: its direction word, then the declaration that
\* the reference it returned refers to, without semicolon.
PortEntry(call) ==
    (IF call.op = "AddInput" THEN "input" ELSE "output") \o " "
        \o EmitNoSemi(file, file[call.ret].def)

\* The text between the module's name and its body.
ExpectedPortList ==
    IF PortCalls = <<>> THEN ";\n"
    ELSE "(\n  " \o JoinSep([i \in DOMAIN PortCalls |-> PortEntry(PortCalls[i])],
                             ",\n  ")
         \o "\n);\n"

\* C15: Module::Emit lists exactly one port entry per AddInput / AddOutput
\* call, in call order, each <direction> <declaration without semicolon>,
\* whatever wires, regs and parameters were added; with no port there is no
\* parenthesized list.
C15_PortListInCallOrder ==
    /\ \A i \in DOMAIN PortCalls :
          LET def == file[file[PortCalls[i].ret].def] IN
          /\ def.name = PortCalls[i].args[1]
          /\ def.data_type = PortCalls[i].args[2]
    /\ Emitted({"Module"}) =>
          /\ ~fatal
          /\ StartsWith(out.ret, "module m" \o ExpectedPortList)
          /\ CountSub(out.ret, "input ") + CountSub(out.ret, "output ")
                 = Len(PortCalls)
          /\ PortCalls = <<>> => ~Contains(out.ret, "(")

C15_Witness ==
    /\ Emitted({"Module"})
    /\ Len(history) = 3
    /\ StartsWith(out.ret,
                  "module m(\n  output wire [3:0] b,\n  input wire a\n);\n  wire")

\* ------------------------------------------------------------------------
\* Port descriptors
\* ------------------------------------------------------------------------

\* The flat bit count of a data type whose width and dimensions are literals.
LiteralBitCount(f, t) ==
    (IF t.width = nullptr THEN 1 ELSE f[t.width].bits.value)
        * Product(f, t.packed_dims)

\* The sum of the bit counts of the ports of ports from i on that have the
\* direction.
RECURSIVE SumOfWidths(_, _, _, _)
SumOfWidths(f, ports, direction, i) ==
    IF i > Len(ports) THEN 0
    ELSE (IF ports[i].direction = direction
          THEN LiteralBitCount(f, f[ports[i].wire].data_type) ELSE 0)
         + SumOfWidths(f, ports, direction, i + 1)

\* What GetInputBits / GetOutputBits is claimed to return.
BitsOfDirection(direction) ==
    LET ports == file[out.this].ports
        mine == {i \in DOMAIN ports : ports[i].direction = direction}
    IN  IF \E i \in mine : ~AllLiteral(file, file[ports[i].wire].data_type)
        THEN out.ret.code = "kFailedPrecondition"
        ELSE out.ret = OkStatus(SumOfWidths(file, ports, direction, 1))

\* C17: Port::ToProto returns a failure result, without aborting, when the
\* port's width or a packed dimension is not a literal, and otherwise the
\* descriptor of its direction, name and flat bit count; GetInputBits and
\* GetOutputBits return a failure when a port of their direction has a
\* non-literal width and otherwise the sum of the widths of the ports of
\* that direction only.
C17_PortDescriptors ==
    /\ Returned("ToProto") =>
          LET port == file[out.this].ports[out.args[1]]
              t == file[port.wire].data_type
          IN  /\ ~fatal
              /\ IF ~AllLiteral(file, t)
                 THEN out.ret.code = "kFailedPrecondition"
                 ELSE out.ret =
                          OkStatus([direction |-> IF port.direction = "kInput"
                                                  THEN "DIRECTION_INPUT"
                                                  ELSE "DIRECTION_OUTPUT",
                                    name |-> file[port.wire].name,
                                    width |-> LiteralBitCount(file, t)])
    /\ Returned("GetInputBits") => ~fatal /\ BitsOfDirection("kInput")
    /\ Returned("GetOutputBits") => ~fatal /\ BitsOfDirection("kOutput")

\* ------------------------------------------------------------------------
\* Sections
\* ------------------------------------------------------------------------

\* The positions below a section: <<i>> is its i-th member, <<i, j>> the
\* j-th member of its i-th member, and so on.
RECURSIVE PathsOf(_, _)
PathsOf(f, section) ==
    UNION {{<<i>>} \cup (IF f[f[section].members[i]].kind = "ModuleSection"
                         THEN {<<i>> \o p : p \in PathsOf(f, f[section].members[i])}
                         ELSE {})
           : i \in DOMAIN f[section].members}

RECURSIVE NodeAt(_, _, _)
NodeAt(f, section, path) ==
    IF Len(path) = 1 THEN f[section].members[path[1]]
    ELSE NodeAt(f, f[section].members[path[1]], Tail(path))

\* The positions of the members that are not sections.
LeafPaths(f, section) ==
    {p \in PathsOf(f, section) : f[NodeAt(f, section, p)].kind # "ModuleSection"}

\* p comes before q, depth first and left to right.
Before(p, q) ==
    \E k \in 1..Len(p) :
        /\ k <= Len(q)
        /\ \A j \in 1..(k - 1) : p[j] = q[j]
        /\ p[k] < q[k]

\* members is the non-section members of the tree of section, each once,
\* depth first and left to right.
IsDepthFirstOrder(f, section, members) ==
    LET leaves == LeafPaths(f, section)
        PathTo(n) == CHOOSE p \in leaves : NodeAt(f, section, p) = n
    IN  /\ \A i \in DOMAIN members : f[members[i]].kind # "ModuleSection"
        /\ {members[i] : i \in DOMAIN members}
               = {NodeAt(f, section, p) : p \in leaves}
        /\ Len(members) = Cardinality(leaves)
        /\ \A i, j \in DOMAIN members :
               i < j => Before(PathTo(members[i]), PathTo(members[j]))

\* The arena with one more section, flat, holding members.
WithFlatSection(f, members) ==
    Append(f, [kind |-> "ModuleSection", members |-> members])

\* C14: for every tree of nested sections the gathered member list holds no
\* section and is the non-section members of the tree, each once, depth
\* first and left to right; the emitted text is the members' texts in that
\* order, the same as that of a flat section holding them.
C14_SectionsFlattened ==
    /\ \A s \in NodesOfKinds(file, {"ModuleSection"}) :
          IsDepthFirstOrder(file, s, GatherMembers(file, s))
    /\ Emitted({"ModuleSection"}) =>
          LET members == GatherMembers(file, out.this)
              flat == WithFlatSection(file, members)
          IN  /\ ~fatal
              /\ out.ret = JoinSep([i \in DOMAIN members |->
                                       Emit(file, members[i])], "\n")
              /\ out.ret = Emit(flat, Len(flat))

\* The wire was added last, to a nested section that sits before the reg.
C14_Witness ==
    /\ Emitted({"ModuleSection"})
    /\ \E m \in Modules(file) : out.this = file[m].top
    /\ Len(history) = 3
    /\ history[2].op = "AddReg"
    /\ history[3].op = "AddWire"
    /\ out.ret = "wire x;\nreg r = 0;"

\* ------------------------------------------------------------------------
\* Emission and the arena
\* ------------------------------------------------------------------------

\* A step that is a call of Emit.
EmitStep == out'.op = "Emit" /\ history' = history

\* C18: a call of Emit on any node makes no node and changes no node of the
\* arena, and a second call right after the first returns the same text.
C18_EmitReadsOnly ==
    [][EmitStep =>
          /\ file' = file
          /\ (out.op = "Emit" /\ out.this = out'.this /\ ~fatal') =>
                 out'.ret = out.ret]_vars

\* ------------------------------------------------------------------------
\* Identifiers
\* ------------------------------------------------------------------------

\* Position i of the sanitised name holds the character c of the input, or
\* an underscore where c is not alphanumeric.
Kept(c) == IF ascii_isalnum(c) THEN c ELSE "_"

SanitizeReturned == out.op = "SanitizeIdentifier"

\* C22: SanitizeIdentifier returns "_" for the empty string and otherwise the
\* input, prefixed with "_" iff its first character is a digit, with every
\* non-alphanumeric character replaced by "_"; the result is non-empty, does
\* not start with a digit, holds only alphanumerics and underscores, and is a
\* fixed point of SanitizeIdentifier.
C22_SanitizeIdentifier ==
    SanitizeReturned =>
        LET name == out.args[1]
            ret == out.ret
            shift == IF name # "" /\ ascii_isdigit(CharAt(name, 1)) THEN 1 ELSE 0
        IN  /\ name = "" => ret = "_"
            /\ name # "" =>
                /\ Len(ret) = Len(name) + shift
                /\ shift = 1 => CharAt(ret, 1) = "_"
                /\ \A i \in 1..Len(name) :
                       CharAt(ret, i + shift) = Kept(CharAt(name, i))
            /\ ret # ""
            /\ ~ascii_isdigit(CharAt(ret, 1))
            /\ \A i \in 1..Len(ret) :
                   ascii_isalnum(CharAt(ret, i)) \/ CharAt(ret, i) = "_"
            /\ SanitizeIdentifier(ret) = ret

\* A name with a leading digit and a non-alphanumeric character.
C22_Witness ==
    /\ SanitizeReturned
    /\ out.args = <<"7$a">>
    /\ out.ret = "_7_a"

\* ------------------------------------------------------------------------
\* Port descriptors
\* ------------------------------------------------------------------------

FromProtoCalled == out.op = "FromProto"

\* ToProto was called on the port FromProto made.
RoundTripped == out.op = "ToProto" /\ Len(history) = 1

\* C29: for every descriptor with direction input or output and width >= 1,
\* FromProto followed by ToProto succeeds and returns a descriptor with the
\* same direction, name and width, width 1 being held as a scalar type with
\* no range; FromProto with a width <= 0 aborts.
C29_PortProtoRoundTrip ==
    /\ FromProtoCalled =>
        LET proto == out.args[1] IN
        /\ fatal <=> proto.width <= 0
        /\ (~fatal /\ proto.width = 1) => file[out.ret.wire].data_type.width = nullptr
    /\ RoundTripped =>
        LET proto == history[1].args[1] IN
        /\ ~fatal
        /\ proto.direction \in {"DIRECTION_INPUT", "DIRECTION_OUTPUT"} =>
               out.ret = OkStatus(proto)

\* The round trip of a scalar output port.
C29_Witness ==
    /\ RoundTripped
    /\ history[1].args[1].width = 1
    /\ file[history[1].ret.wire].data_type.width = nullptr
    /\ out.ret = OkStatus([direction |-> "DIRECTION_OUTPUT", name |-> "a", width |-> 1])

\* ------------------------------------------------------------------------
\* Ranges
\* ------------------------------------------------------------------------

\* The decimal numeral of an integer.
IntegerNumeral(v) == IF v < 0 THEN "-" \o DecimalString(0 - v) ELSE DecimalString(v)

\* The upper bound claimed for a width expression: the numeral of v - 1 for
\* a literal of value v, the subtraction e - 1 otherwise, e in parentheses
\* iff its precedence is below that of subtraction.
UpperBound(f, e) ==
    IF IsLiteral(f, e) THEN IntegerNumeral(f[e].bits.value - 1)
    ELSE Wrapped(precedence(f, e) < kBinarySubPrecedence, Emit(f, e)) \o " - 1"

RECURSIVE DimRanges(_, _)
DimRanges(f, dims) ==
    IF dims = <<>> THEN ""
    ELSE "[" \o UpperBound(f, Head(dims)) \o ":0]" \o DimRanges(f, Tail(dims))

\* w is the wire of SpecWidth whose declaration was emitted.
EmittedRange ==
    /\ Emitted({"Def"})
    /\ file[out.this].name = "w"

\* C21: the upper bound of every width and packed-dimension range is the
\* decimal numeral of v - 1 for a literal of value v and e - 1 for any other
\* expression e, e in parentheses iff its precedence is lower than that of
\* subtraction; an absent width emits no range.
C21_WidthMinusOne ==
    EmittedRange =>
        LET t == file[out.this].data_type IN
        /\ ~fatal
        /\ out.ret = "wire"
                \o (IF t.width = nullptr THEN ""
                    ELSE " [" \o UpperBound(file, t.width) \o ":0]")
                \o DimRanges(file, t.packed_dims)
                \o " w;"

\* ------------------------------------------------------------------------
\* Interval sets
\* ------------------------------------------------------------------------

\* The most recent call was a method of a set whose bit count is -1.
CalledOnDefaultSet ==
    /\ out.op \in {"NumberOfIntervals", "Intervals", "BitCount", "AddInterval"}
    /\ interval_set.bit_count_ = -1

\* C23: every method called on a default-constructed IntervalSet (bit count
\* -1) fails: NumberOfIntervals, Intervals, BitCount and AddInterval each
\* fail on such a set.
C23_DefaultSetFails == CalledOnDefaultSet => fatal

\* ------------------------------------------------------------------------
\* Experiments
\* ------------------------------------------------------------------------

\* The sweep steps added so far, in the order of the AddNewStep calls.
AddedSteps == [i \in DOMAIN history |-> history[i].args[1]]

\* The base config of the experiment is left as it is.
BaseConfigKept == experiment'.config_ = experiment.config_

\* The answer to GetConfigForStep(step) the claim states: the base config
\* for step 0, the outcome of the step-th added functor on a copy of the
\* base config for the steps after it (an error if the functor returns one).
ConfigOfStep(step) ==
    IF step = 0 THEN OkStatus(experiment.config_)
    ELSE LET applied == InvokeStep(AddedSteps[step], experiment.config_) IN
         IF applied.status.code = "kOk" THEN OkStatus(applied.config)
         ELSE InternalError

StepAnswers ==
    /\ out.op = "GetStepCount" => out.ret = Len(AddedSteps) + 1
    /\ (out.op = "GetConfigForStep" /\ out.args[1] \in 0..Len(AddedSteps)) =>
           out.ret = ConfigOfStep(out.args[1])
    /\ (out.op = "RunStep" /\ out.args[1] \in 0..Len(AddedSteps)) =>
           LET config == ConfigOfStep(out.args[1]) IN
           out.ret = IF config.code = "kOk" THEN RunExperiment(config.value)
                     ELSE config

\* C24: over any sequence of GetConfigForStep and RunStep calls the stored
\* base config is never modified, GetConfigForStep(0) returns the base
\* config, GetConfigForStep(N) for 1 <= N < GetStepCount() returns the result
\* of applying only the N-th added step to a copy of the base config,
\* whatever was requested before, and GetStepCount() is the number of added
\* steps plus one.
C24_StepsIndependent ==
    /\ []StepAnswers
    /\ [][BaseConfigKept]_vars

\* Step 2 of two added steps: only the second step's field is set.
C24_Witness ==
    /\ out.op = "GetConfigForStep"
    /\ out.args = <<2>>
    /\ experiment.config_ = NewExperimentConfig(0, 0)
    /\ AddedSteps = <<[field |-> "traffic_", value |-> 1, status |-> "kOk"],
                      [field |-> "network_", value |-> 1, status |-> "kOk"]>>
    /\ out.ret = OkStatus(NewExperimentConfig(0, 1))

MutationApplied == out.op = "ApplyMutationStep"

\* C30: ApplyMutationStep returns an error, invokes no functor and leaves the
\* config untouched for every index outside 0 .. number of added steps,
\* negative indices included; for index 0 it returns OK and leaves the config
\* unmodified; for an index in 1 .. number of added steps it invokes exactly
\* the functor added as that step.
C30_ApplyMutationStep ==
    MutationApplied =>
        LET index == out.args[1]
            config == out.args[2]
            steps == Len(AddedSteps)
        IN  /\ ~fatal
            /\ (index < 0 \/ index > steps) =>
                   /\ out.ret.status.code # "kOk"
                   /\ out.ret.invoked = <<>>
                   /\ out.ret.config = config
            /\ index = 0 =>
                   /\ out.ret.status.code = "kOk"
                   /\ out.ret.invoked = <<>>
                   /\ out.ret.config = config
            /\ index \in 1..steps =>
                   /\ out.ret.invoked = <<index>>
                   /\ out.ret.status = InvokeStep(AddedSteps[index], config).status
                   /\ out.ret.config = InvokeStep(AddedSteps[index], config).config

\* ------------------------------------------------------------------------
\* Format strings
\* ------------------------------------------------------------------------

\* The text of the specifier of a preference.
SpecifierOf(preference) ==
    LET k == CHOOSE k \in DOMAIN kSpecifiers : kSpecifiers[k][2] = preference
    IN  kSpecifiers[k][1]

\* A fragment written back as format text: every brace doubled.
RECURSIVE Escaped(_)
Escaped(fragment) ==
    IF fragment = "" THEN ""
    ELSE (IF CharAt(fragment, 1) \in {"{", "}"}
          THEN CharAt(fragment, 1) \o CharAt(fragment, 1)
          ELSE CharAt(fragment, 1))
         \o Escaped(SubSeq(fragment, 2, Len(fragment)))

\* The format string a list of steps stands for.
RECURSIVE Unparse(_)
Unparse(steps) ==
    IF steps = <<>> THEN ""
    ELSE (IF Head(steps).holds = "std::string" THEN Escaped(Head(steps).value)
          ELSE SpecifierOf(Head(steps).value))
         \o Unparse(Tail(steps))

\* The units of a well-formed format string: an escaped brace, a specifier,
\* or a character that is not a brace.
FormatUnits(s) ==
    {"{{", "}}"} \cup {kSpecifiers[k][1] : k \in DOMAIN kSpecifiers}
    \cup (IF s # "" /\ CharAt(s, 1) \notin {"{", "}"} THEN {CharAt(s, 1)} ELSE {})

\* s is a sequence of units: every brace of s is part of an escape or of a
\* specifier.
RECURSIVE WellFormed(_)
WellFormed(s) ==
    \/ s = ""
    \/ \E unit \in FormatUnits(s) :
           /\ StartsWith(s, unit)
           /\ WellFormed(SubSeq(s, Len(unit) + 1, Len(s)))

\* The number of specifiers among the units of a well-formed s.
RECURSIVE Placeholders(_)
Placeholders(s) ==
    IF s = "" THEN 0
    ELSE LET unit == CHOOSE unit \in FormatUnits(s) :
                         /\ StartsWith(s, unit)
                         /\ WellFormed(SubSeq(s, Len(unit) + 1, Len(s)))
         IN  (IF \E k \in DOMAIN kSpecifiers : kSpecifiers[k][1] = unit
              THEN 1 ELSE 0)
             + Placeholders(SubSeq(s, Len(unit) + 1, Len(s)))

Parsed == out.op = "ParseFormatString"

Counted == out.op = "OperandsExpectedByFormat"

\* C28: on success the steps hold no empty fragment and no two adjacent
\* fragments, they stand for the input (each "{{" and "}}" one literal brace
\* of a fragment, each specifier one format step, in input order), and
\* OperandsExpectedByFormat of them is the number of specifiers of the
\* input; an unescaped "{" that starts no specifier, or an unescaped "}",
\* gives an InvalidArgument error and no steps.
C28_ParseFormatString ==
    /\ Parsed =>
        LET format_string == out.args[1] IN
        IF WellFormed(format_string)
        THEN LET steps == out.ret.value IN
             /\ out.ret.code = "kOk"
             /\ \A i \in DOMAIN steps :
                    steps[i].holds = "std::string" =>
                        /\ steps[i].value # ""
                        /\ i > 1 => steps[i - 1].holds # "std::string"
             /\ Unparse(steps) = format_string
        ELSE out.ret = InvalidArgumentError
    /\ Counted => out.ret = Placeholders(out.args[1])

\* An escaped brace on either side of a specifier.
C28_Witness ==
    /\ Parsed
    /\ out.args = <<"{{{:#x}}}">>
    /\ out.ret = OkStatus(<<StringStep("{"), PreferenceStep("kHex"), StringStep("}")>>)

\* ------------------------------------------------------------------------
\* Block ports
\* ------------------------------------------------------------------------

\* The names of the ports of a block, in the order of its port list.
PortNamesOf(b) == [i \in DOMAIN b.ports_ |-> PortName(b, b.ports_[i])]

NoTwoPortsShareAName ==
    \A i, j \in DOMAIN block.ports_ :
        i # j => PortNamesOf(block)[i] # PortNamesOf(block)[j]

AtMostOneClockPort ==
    Cardinality({i \in DOMAIN block.ports_ : block.ports_[i].holds = "ClockPort*"}) <= 1

\* A port is added under a name one of the ports has: the call returns an
\* error and the port lists are as before.
AddingAUsedNameFails ==
    (/\ out'.op \in {"AddInputPort", "AddOutputPort", "AddClockPort"}
     /\ IsElement(PortNamesOf(block), out'.args[1]))
        => /\ out'.ret.code # "kOk"
           /\ block'.ports_ = block.ports_
           /\ block'.input_ports_ = block.input_ports_
           /\ block'.output_ports_ = block.output_ports_

\* C25: in every state reached by AddClockPort, AddInputPort, AddOutputPort
\* and RemoveNode calls no two ports of the port list (clock, input or
\* output) share a name: adding a port under a name any port has, the clock
\* port included, returns an error and leaves the port lists unchanged, and
\* there is at most one clock port.
C25_PortNamesUnique ==
    /\ [](NoTwoPortsShareAName /\ AtMostOneClockPort)
    /\ [][AddingAUsedNameFails]_vars

\* names lists each element of the sequence s once: it is s rearranged.
IsArrangementOf(names, s) ==
    /\ Len(names) = Len(s)
    /\ \A i, j \in DOMAIN names : i # j => names[i] # names[j]
    /\ \A i \in DOMAIN s : IsElement(names, s[i])

\* C27: ReorderPorts succeeds iff the name list is a duplicate-free list of
\* exactly the names of the block's ports (clock included); on success the
\* port list holds the same ports as before in exactly the given order, and
\* on failure the port order is unchanged.
C27_ReorderPorts ==
    [][out'.op = "ReorderPorts" =>
          LET port_names == out'.args[1] IN
          IF IsArrangementOf(port_names, PortNamesOf(block))
          THEN /\ out'.ret.code = "kOk"
               /\ PortNamesOf(block') = port_names
               /\ {block'.ports_[i] : i \in DOMAIN block'.ports_}
                      = {block.ports_[i] : i \in DOMAIN block.ports_}
               /\ Len(block'.ports_) = Len(block.ports_)
          ELSE /\ out'.ret.code # "kOk"
               /\ block'.ports_ = block.ports_]_vars

\* ------------------------------------------------------------------------
\* Block registers
\* ------------------------------------------------------------------------

Elements(vector) == {vector[i] : i \in DOMAIN vector}

\* The four containers hold the same registers, the vector each once and in
\* the order they were added (a register made later has a larger position
\* among the Register objects).
RegisterContainersAgree ==
    LET named == {block.registers_[name] : name \in DOMAIN block.registers_} IN
    /\ named = Elements(block.register_vec_)
    /\ named = DOMAIN block.register_reads_
    /\ named = DOMAIN block.register_writes_
    /\ \A name \in DOMAIN block.registers_ :
           block.register_objects[block.registers_[name]].name = name
    /\ \A i, j \in DOMAIN block.register_vec_ :
           i < j => block.register_vec_[i] < block.register_vec_[j]

\* The live register-read and register-write nodes of a register.
OperationsOn(b, reg) ==
    {n \in LiveNodes(b) : /\ b.nodes[n].op \in {"RegisterRead", "RegisterWrite"}
                          /\ b.nodes[n].register = reg}

\* AddRegister under a name the block has, or with a reset value of another
\* type, returns an error and changes nothing.
RejectedAddRegister ==
    (/\ out'.op = "AddRegister"
     /\ \/ out'.args[1] \in DOMAIN block.registers_
        \/ /\ out'.args[3].has_value
           /\ out'.args[3].reset_value.type # out'.args[2])
        => (out'.ret.code # "kOk" /\ block' = block)

\* RemoveRegister of a register the block does not own, or one that still
\* has a read or write node, returns an error and changes nothing.
RejectedRemoveRegister ==
    (/\ out'.op = "RemoveRegister"
     /\ \/ ~IsElement(block.register_vec_, out'.args[1])
        \/ OperationsOn(block, out'.args[1]) # {})
        => (out'.ret.code # "kOk" /\ block' = block)

\* C26: after any sequence of AddRegister, RemoveRegister and additions and
\* removals of register-read and register-write nodes, the name map, the
\* register vector, the reads map and the writes map hold the same registers
\* (the vector in insertion order, without duplicates); AddRegister with an
\* existing name or a reset value of another type returns an error and
\* changes nothing; RemoveRegister returns an error and changes nothing for
\* a register the block does not own or one that still has a read or write
\* node.
C26_RegisterContainers ==
    /\ []RegisterContainersAgree
    /\ [][RejectedAddRegister /\ RejectedRemoveRegister]_vars

\* The first of two registers was removed: the vector holds the second.
C26_Witness ==
    /\ out.op = "RemoveRegister"
    /\ out.ret.code = "kOk"
    /\ Len(block.register_vec_) = 1
    /\ block.register_vec_[1] > out.args[1]
    /\ DOMAIN block.registers_ = {"s"}

====
